---- MODULE Spec2Model ----
(***************************************************************************)
(* Model of the multi-agent AWS operations layer:                          *)
(*   - utils/error_handling.py   safe_aws_call (retry adapter)             *)
(*   - orchestrator.py           LocalAgentOrchestrator                    *)
(*   - backend/orchestrator/coordinator.py   AgentCoordinator              *)
(*   - agents/*/agent.py         the deployed agents' invoke entry points  *)
(*   - utils/cache.py            SimpleCache and the cached decorator      *)
(*   - orchestrate_smart_architecture_design of both coordinators          *)
(*   - agent/cost_intelligence_agent.py   multi-account cost aggregation   *)
(*   - agent/operations_intelligence_agent.py   resource scan, security    *)
(*   - working_agent/session_manager.py   interview session flow           *)
(*                                                                         *)
(* Python dicts are modelled as TLA+ records whose DOMAIN is the set of    *)
(* keys present; d.get(k, default) is Get(d, k, default).                  *)
(***************************************************************************)
EXTENDS Integers, Sequences, FiniteSets, TLC

VARIABLES
    \* ---- safe_aws_call (utils/error_handling.py) ----
    max_retries,      \* the max_retries keyword argument
    attempt,          \* loop variable of "for attempt in range(max_retries)"
    call_count,       \* number of times func(*args, **kwargs) was invoked
    sleeps,           \* sequence of the arguments given to time.sleep
    outcomes,         \* what func did on each invocation, in order
    sc_pc,            \* "loop" inside safe_aws_call, "done" once returned, "raised" if an exception left it
    sc_ret,           \* the returned envelope
    \* ---- LocalAgentOrchestrator.orchestrate_full_analysis (orchestrator.py) ----
    use_gateway,      \* self.use_gateway
    pc,               \* position inside orchestrate_full_analysis
    results,          \* the local dict "results"
    errors,           \* the local list "errors"
    invoked,          \* agent names given to invoke_agent, in call order
    coordinated,      \* coordinated_recommendations (after merge)
    scores,           \* overall_scores (after score)
    ret,              \* the returned envelope
    \* ---- AgentCoordinator (backend/orchestrator/coordinator.py) ----
    co_agents,        \* self.agents: agent name -> TRUE when an ARN is set (None otherwise)
    co_pc,            \* position inside the running orchestration
    co_results,       \* the local dict "results" of the running orchestration
    co_invoked,       \* agent names given to invoke_agent, in call order
    co_ret,           \* envelope returned by the orchestration
    \* ---- deployed agents' entry points (agents/*/agent.py) ----
    ag_calls,         \* number of invoke() calls made
    ag_last,          \* [agent, action] of the last invoke() call
    ag_ret,           \* envelope returned by the last invoke()
    \* ---- SimpleCache and the cached decorator (utils/cache.py) ----
    c_default_ttl,    \* self.default_ttl
    c_ttl,            \* the ttl argument of the @cached decorator
    c_now,            \* time.time(), in whole seconds
    c_store,          \* self._cache: key -> [value, expiry]
    c_written,        \* per key, what the latest set or delete of that key did
    c_last,           \* the last completed call: operation, key, return value
    c_ops,            \* number of cache calls completed
    \* ---- threads sharing one SimpleCache (utils/cache.py) ----
    th_pc,            \* per thread: the statement it is about to execute
    th_loc,           \* per thread: the local variables of the running call
    th_ret,           \* per thread: the last completed call and its return value
    th_everset,       \* per key: the values ever given to set for that key
    \* ---- orchestrate_smart_architecture_design (both coordinators) ----
    d_impl,           \* "orchestrator" (orchestrator.py) or "coordinator" (coordinator.py)
    d_req,            \* the requirements argument
    d_pc,             \* position inside orchestrate_smart_architecture_design
    d_results,        \* the local dict "results"
    d_calls,          \* the invoke_agent calls made, in order: agent and requested scale
    d_ret,            \* the returned envelope
    \* ---- MultiAccountCostIntelligenceAgent (agent/cost_intelligence_agent.py) ----
    ca_pc,            \* position: module import, invoke, get_multi_account_costs and its loop
    ca_is_org,        \* self.is_org_account
    ca_org_accounts,  \* self.org_accounts (account ids)
    ca_billing,       \* per account, what its billing query is going to do
    ca_i,             \* index of the loop "for account in self.org_accounts"
    ca_total_usage,   \* the local total_usage
    ca_total_credits, \* the local total_credits
    ca_successful,    \* the local successful_accounts
    ca_account_results, \* the local list account_results
    ca_ret,           \* what get_multi_account_costs returned
    ca_inv,           \* the envelope invoke returned
    \* ---- _scan_current_account_resources (agent/operations_intelligence_agent.py) ----
    rs_pc,            \* position of the calling thread
    rs_scan,          \* per resource type, what its scan function is going to do
    rs_state,         \* per resource type, the state of its future
    rs_order,         \* resource types in the order their futures finished
    rs_collected,     \* number of futures as_completed has handed over
    rs_resources,     \* the local dict "resources" (its keys)
    rs_resource_types, \* the local dict "resource_types"
    rs_now,           \* seconds elapsed since the scans were submitted
    \* ---- security-group findings (both assessments) ----
    sg_pc,            \* position inside the assessment
    sg_impl,          \* which assessment runs
    sg_rules,         \* ingress rules describe_security_groups returned
    sg_i,             \* index of the rule loop
    sg_issues,        \* security_issues
    \* ---- invoke_agent called directly (both coordinators) ----
    ia_calls,         \* number of invoke_agent calls made
    ia_last,          \* the last call: implementation, agent name, returned value
    \* ---- the global settings object (config/settings.py) ----
    st_pc,            \* position in the module-level try/except
    st_env,           \* the environment variables of the process
    st_settings,      \* the global "settings"
    \* ---- _scan_organization_accounts (agent/operations_intelligence_agent.py) ----
    os_pc,            \* position inside _scan_organization_accounts
    os_accounts,      \* per account of self.org_accounts, what its scan is going to find
    os_i,             \* index of the account loop
    os_all_resources, \* the local dict "all_resources" (its keys)
    os_successful,    \* the local successful_accounts
    os_ret,           \* the returned inventory
    \* ---- AutonomousInterviewFlow (working_agent/session_manager.py) ----
    iv_state,         \* session.state, "absent" while the session is not in self.sessions
    iv_role,          \* session.interview_config["role"]
    iv_index,         \* session.current_question_index
    iv_questions,     \* session.questions
    iv_responses,     \* session.responses
    iv_analysis,      \* session.candidate_analysis
    iv_ret            \* what the last call on the session returned or raised

retryVars == <<max_retries, attempt, call_count, sleeps, outcomes, sc_pc, sc_ret>>
orchVars  == <<use_gateway, pc, results, errors, invoked, coordinated, scores, ret>>
coordVars == <<co_agents, co_pc, co_results, co_invoked, co_ret>>
agentVars == <<ag_calls, ag_last, ag_ret>>
cacheVars == <<c_default_ttl, c_ttl, c_now, c_store, c_written, c_last, c_ops>>
coreVars == <<retryVars, orchVars, coordVars, agentVars>>
concVars == <<th_pc, th_loc, th_ret, th_everset>>
designVars == <<d_impl, d_req, d_pc, d_results, d_calls, d_ret>>
costVars == <<ca_pc, ca_is_org, ca_org_accounts, ca_billing, ca_i, ca_total_usage,
              ca_total_credits, ca_successful, ca_account_results, ca_ret, ca_inv>>
scanVars == <<rs_pc, rs_scan, rs_state, rs_order, rs_collected, rs_resources,
              rs_resource_types, rs_now>>
securityVars == <<sg_pc, sg_impl, sg_rules, sg_i, sg_issues>>
invokeVars == <<ia_calls, ia_last>>
settingsVars == <<st_pc, st_env, st_settings>>
orgScanVars == <<os_pc, os_accounts, os_i, os_all_resources, os_successful, os_ret>>
interviewVars == <<iv_state, iv_role, iv_index, iv_questions, iv_responses, iv_analysis, iv_ret>>
agentsVars == <<costVars, scanVars, securityVars, invokeVars, settingsVars, orgScanVars,
                interviewVars>>
laterVars == <<cacheVars, concVars, designVars, agentsVars>>
notCacheVars == <<coreVars, concVars, designVars, agentsVars>>
notConcVars == <<coreVars, c_default_ttl, c_ttl, c_now, c_written, c_last, designVars, agentsVars>>
notDesignVars == <<retryVars, orchVars, co_pc, co_results, co_invoked, co_ret, agentVars,
                   cacheVars, concVars, agentsVars>>
notCostVars == <<coreVars, cacheVars, concVars, designVars, scanVars, securityVars, invokeVars, settingsVars,
    orgScanVars, interviewVars>>
notScanVars == <<coreVars, cacheVars, concVars, designVars, costVars, securityVars, invokeVars, settingsVars,
    orgScanVars, interviewVars>>
notSecurityVars == <<coreVars, cacheVars, concVars, designVars, costVars, scanVars, invokeVars, settingsVars,
    orgScanVars, interviewVars>>
notSettingsVars == <<coreVars, cacheVars, concVars, designVars, costVars, scanVars, securityVars,
                     invokeVars, orgScanVars, interviewVars>>
notOrgScanVars == <<coreVars, cacheVars, concVars, designVars, costVars, scanVars, securityVars,
                    invokeVars, settingsVars, interviewVars>>
notInterviewVars == <<coreVars, cacheVars, concVars, designVars, costVars, scanVars, securityVars,
                      invokeVars, settingsVars, orgScanVars>>
notInvokeVars == <<coreVars, cacheVars, concVars, designVars, costVars, scanVars, securityVars, settingsVars,
    orgScanVars, interviewVars>>
vars == <<coreVars, laterVars>>

----------------------------------------------------------------------------
\* Bounds of the model
MaxRetriesBound == 4
MaxItems == 2
MaxAgentCalls == 2
MaxTime == 3
MaxTtl == 2
MaxCacheOps == 4
MaxThreadOps == 3
MaxAccounts == 3
MaxResponses == 4        \* answers given to one interview session

----------------------------------------------------------------------------
\* Python dict helpers
Has(d, k) == k \in DOMAIN d
Get(d, k, default) == IF k \in DOMAIN d THEN d[k] ELSE default

\* A value standing for "nothing returned yet"
NoRet == [pending |-> TRUE]

\* sum(...) over a sequence of integers
RECURSIVE SumSeq(_)
SumSeq(s) == IF s = <<>> THEN 0 ELSE Head(s) + SumSeq(Tail(s))

\* 2 ** n
RECURSIVE Pow2(_)
Pow2(n) == IF n <= 0 THEN 1 ELSE 2 * Pow2(n - 1)

----------------------------------------------------------------------------
\* ======================= safe_aws_call ==================================

\* Error codes a ClientError can carry in e.response['Error']['Code']
ErrorCodes == {"Throttling", "RequestLimitExceeded", "ServiceUnavailable",
               "AccessDenied", "InvalidParameterValue", "ValidationException",
               "ResourceNotFoundException"}

\* What one invocation of func can do: return a value or raise an exception
\* derived from Exception.  A ClientError carries response['Error'] with
\* 'Code' and 'Message', as botocore's response parsers build it.
FuncOutcomes ==
    [kind : {"return"}, cls : {"none"}, code : {"none"}]
    \cup [kind : {"raise"}, cls : {"ClientError"}, code : ErrorCodes]
    \cup [kind : {"raise"}, cls : {"NoCredentialsError", "BotoCoreError", "Exception"}, code : {"none"}]

\* isinstance(e, handler): NoCredentialsError derives from BotoCoreError,
\* and everything derives from Exception
IsInstance(cls, handler) ==
    \/ cls = handler
    \/ handler = "Exception"
    \/ cls = "NoCredentialsError" /\ handler = "BotoCoreError"

\* A try statement without the trailing "except Exception"
ExceptClausesNoCatchAll == <<"ClientError", "NoCredentialsError", "BotoCoreError">>

\* The except clauses in source order; the first matching one handles
ExceptClauses == <<"ClientError", "NoCredentialsError", "BotoCoreError", "Exception">>

\* The clause that handles an exception of class cls, "none" when no clause
\* matches and the exception propagates to the caller
HandlerFor(cls) ==
    LET matching == {i \in 1..Len(ExceptClauses) : IsInstance(cls, ExceptClauses[i])}
    IN IF matching = {} THEN "none"
       ELSE ExceptClauses[CHOOSE i \in matching : \A j \in matching : i <= j]

\* A retryable list that also holds AccessDenied
RetryableCodesWithAccessDenied ==
    {"Throttling", "RequestLimitExceeded", "ServiceUnavailable", "AccessDenied"}

\* error_code in ['Throttling', 'RequestLimitExceeded', 'ServiceUnavailable']
RetryableCodes == {"Throttling", "RequestLimitExceeded", "ServiceUnavailable"}

\* A handler that treats no error as retryable
IsRetryableOutcomeNever(o) == FALSE

IsRetryableOutcome(o) ==
    o.kind = "raise" /\ HandlerFor(o.cls) = "ClientError" /\ o.code \in RetryableCodes

\* A backoff of 2 ** (attempt + 1)
SleepTimeOffByOne(att) == Pow2(att + 1)

\* sleep_time = 2 ** attempt
SleepTime(att) == Pow2(att)

\* The test "attempt < max_retries", which holds on every iteration
HasAttemptLeftOffByOne(att, maxr) == att < maxr

\* A retry taken on every iteration, the last one included
HasAttemptLeftAlways(att, maxr) == TRUE

\* "if attempt < max_retries - 1": another attempt remains
HasAttemptLeft(att, maxr) == att < maxr - 1

\* The envelope built by the handler of a raised exception that ends the call
ErrorEnvelope(o) ==
    LET h == HandlerFor(o.cls) IN
    IF h = "ClientError" THEN
        IF o.code \in RetryableCodes THEN
            [success |-> FALSE, error |-> "max_retries_exceeded", error_code |-> o.code,
             message |-> "Max retries exceeded", service |-> "service_name"]
        ELSE IF o.code = "AccessDenied" THEN
            [success |-> FALSE, error |-> "access_denied", error_code |-> o.code,
             message |-> "Access denied", service |-> "service_name"]
        ELSE IF o.code \in {"InvalidParameterValue", "ValidationException"} THEN
            [success |-> FALSE, error |-> "invalid_parameters", error_code |-> o.code,
             message |-> "error_message", service |-> "service_name"]
        ELSE
            [success |-> FALSE, error |-> "aws_client_error", error_code |-> o.code,
             message |-> "error_message", service |-> "service_name"]
    ELSE IF h = "NoCredentialsError" THEN
        [success |-> FALSE, error |-> "no_credentials",
         message |-> "AWS credentials not found or invalid", service |-> "service_name"]
    ELSE IF h = "BotoCoreError" THEN
        [success |-> FALSE, error |-> "botocore_error",
         message |-> "str(e)", service |-> "service_name"]
    ELSE
        [success |-> FALSE, error |-> "unexpected_error",
         message |-> "str(e)", service |-> "service_name"]

\* result = func(*args, **kwargs): what the n-th invocation returned
RawResult(n) == [result_of_call |-> n]

RetryInit ==
    /\ attempt = 0
    /\ call_count = 0
    /\ sleeps = <<>>
    /\ outcomes = <<>>
    /\ sc_pc = "loop"
    /\ sc_ret = NoRet

\* One iteration of the for loop: call func, then return, sleep and continue,
\* or let the exception out
SafeCallAttempt(o) ==
    /\ sc_pc = "loop"
    /\ attempt < max_retries
    /\ call_count' = call_count + 1
    /\ outcomes' = Append(outcomes, o)
    /\ IF o.kind = "return" THEN
           /\ sc_ret' = [success |-> TRUE, data |-> RawResult(call_count + 1)]
           /\ sc_pc' = "done"
           /\ UNCHANGED <<attempt, sleeps>>
       ELSE IF HandlerFor(o.cls) = "none" THEN
           \* no except clause matches: the exception leaves safe_aws_call
           /\ sc_pc' = "raised"
           /\ UNCHANGED <<attempt, sleeps, sc_ret>>
       ELSE IF IsRetryableOutcome(o) /\ HasAttemptLeft(attempt, max_retries) THEN
           /\ sleeps' = Append(sleeps, SleepTime(attempt))
           /\ attempt' = attempt + 1
           /\ UNCHANGED <<sc_pc, sc_ret>>
       ELSE
           /\ sc_ret' = ErrorEnvelope(o)
           /\ sc_pc' = "done"
           /\ UNCHANGED <<attempt, sleeps>>
    /\ UNCHANGED <<max_retries, orchVars, coordVars, agentVars, laterVars>>

\* range(max_retries) is exhausted without a return: the trailing return
SafeCallFallThrough ==
    /\ sc_pc = "loop"
    /\ ~(attempt < max_retries)
    /\ sc_ret' = [success |-> FALSE, error |-> "unknown_error",
                  message |-> "Unknown error occurred", service |-> "service_name"]
    /\ sc_pc' = "done"
    /\ UNCHANGED <<max_retries, attempt, call_count, sleeps, outcomes>>
    /\ UNCHANGED <<orchVars, coordVars, agentVars, laterVars>>

RetryNext ==
    \/ \E o \in FuncOutcomes : SafeCallAttempt(o)
    \/ SafeCallFallThrough

----------------------------------------------------------------------------
\* ======================= agent result shapes ============================

EmptyDict == [k \in {} |-> 0]

AgentNames == <<"cost_intelligence", "operations_intelligence", "infrastructure_intelligence">>
AgentNameSet == {AgentNames[i] : i \in 1..Len(AgentNames)}

\* Sequences over S of length 0..n
SeqsUpTo(S, n) == UNION {[1..k -> S] : k \in 0..n}

\* monthly_savings values of cost opportunities (dollars)
SavingsValues == {45, 180}
\* severity values the agents attach to insights and security issues
InsightSeverities == {"high", "low", "info"}
IssueSeverities == {"high", "medium"}

\* get_optimization_opportunities / the canned 'optimizations' block:
\* a list of opportunities and the sum of their savings
Optimizations(savings) ==
    [opportunities |-> [i \in 1..Len(savings) |->
                          [monthly_savings |-> savings[i], recommendation |-> i]],
     total_potential_monthly_savings |-> SumSeq(savings)]

\* cost agent, action full_analysis: success envelope
CostSuccess(savings) ==
    [agent |-> "cost_intelligence", success |-> TRUE, optimizations |-> Optimizations(savings)]

\* any agent: the envelope of its outer "except Exception"
AgentFailure(name) == [agent |-> name, success |-> FALSE, error |-> "str(e)"]

\* map_resource_dependencies: the dependency report, or {'error': ...}
Dependencies(sevs) ==
    [total_resources |-> Len(sevs),
     insights |-> [i \in 1..Len(sevs) |-> [severity |-> sevs[i], message |-> i]]]
DependenciesError == [error |-> "Dependency mapping failed"]

\* analyze_performance_bottlenecks: the report, or {'error': ...}
Performance(high) == [total_issues |-> high, high_severity |-> high]
PerformanceError == [error |-> "Performance analysis failed"]

\* operations agent, action full_operations_analysis: success envelope
OpsSuccess(deps, perf) ==
    [agent |-> "operations_intelligence", success |-> TRUE,
     dependencies |-> deps, performance |-> perf]

\* infrastructure agent, action assess_existing: success envelope
InfraSuccess(sevs) ==
    [agent |-> "infrastructure_intelligence", success |-> TRUE,
     security_issues |-> [i \in 1..Len(sevs) |-> [severity |-> sevs[i], recommendation |-> i]]]
\* infrastructure agent whose assessment failed internally: invoke() stamps
\* success=True on the {'error': ...} dict
InfraErrorStamped ==
    [agent |-> "infrastructure_intelligence", success |-> TRUE,
     error |-> "Infrastructure assessment failed"]

\* Envelopes each agent can return for the action the orchestrator sends
AgentReturns(name) ==
    IF name = "cost_intelligence" THEN
        {CostSuccess(s) : s \in SeqsUpTo(SavingsValues, MaxItems)}
        \cup {AgentFailure(name)}
    ELSE IF name = "operations_intelligence" THEN
        {OpsSuccess(d, p) :
            d \in {Dependencies(s) : s \in SeqsUpTo(InsightSeverities, MaxItems)}
                  \cup {DependenciesError},
            p \in {Performance(0), Performance(1), PerformanceError}}
        \cup {AgentFailure(name)}
    ELSE
        {InfraSuccess(s) : s \in SeqsUpTo(IssueSeverities, MaxItems)}
        \cup {InfraErrorStamped, AgentFailure(name)}

\* What invoking an agent's backend can do: return an envelope, raise, or
\* (through the gateway only) stream no chunk at all
AgentBehaviours(name, gateway) ==
    [kind : {"return"}, value : AgentReturns(name)]
    \cup [kind : {"raise"}, value : {EmptyDict}]
    \cup (IF gateway THEN [kind : {"nochunk"}, value : {EmptyDict}] ELSE {})

----------------------------------------------------------------------------
\* ======================= LocalAgentOrchestrator =========================

\* AgentCoreGateway.invoke_agent: everything is caught and enveloped
GatewayInvokeAgent(agent_name, b) ==
    IF agent_name \notin AgentNameSet THEN
        [success |-> FALSE, error |-> "Unknown agent"]
    ELSE IF b.kind = "raise" THEN
        [success |-> FALSE, error |-> "str(e)"]
    ELSE IF b.kind = "nochunk" THEN
        EmptyDict
    ELSE b.value

\* LocalAgentOrchestrator.invoke_agent: [raised, value]; the local branch
\* turns an exception of the agent into {'error': ...} (no success key)
invoke_agent(gateway, agent_name, b) ==
    IF gateway THEN
        [raised |-> FALSE, value |-> GatewayInvokeAgent(agent_name, b)]
    ELSE IF agent_name \notin AgentNameSet THEN
        [raised |-> FALSE, value |-> [error |-> "Agent not found"]]
    ELSE IF b.kind = "raise" THEN
        [raised |-> FALSE, value |-> [error |-> "Agent failed"]]
    ELSE
        [raised |-> FALSE, value |-> b.value]

\* priority_order.get(x['priority'], 2)
PriorityKey(item) ==
    IF item.priority = "high" THEN 0
    ELSE IF item.priority = "medium" THEN 1
    ELSE 2

\* An insertion that puts an item before the items of equal key
RECURSIVE InsertByPriorityUnstable(_, _)
InsertByPriorityUnstable(sorted, x) ==
    IF sorted = <<>> THEN <<x>>
    ELSE IF PriorityKey(Head(sorted)) < PriorityKey(x)
         THEN <<Head(sorted)>> \o InsertByPriorityUnstable(Tail(sorted), x)
         ELSE <<x>> \o sorted

\* list.sort(key=...) is a stable sort: an item goes after every item whose
\* key is not greater than its own
RECURSIVE InsertByPriority(_, _)
InsertByPriority(sorted, x) ==
    IF sorted = <<>> THEN <<x>>
    ELSE IF PriorityKey(Head(sorted)) <= PriorityKey(x)
         THEN <<Head(sorted)>> \o InsertByPriority(Tail(sorted), x)
         ELSE <<x>> \o sorted

RECURSIVE SortByPriority(_)
SortByPriority(s) ==
    IF s = <<>> THEN <<>>
    ELSE InsertByPriority(SortByPriority(SubSeq(s, 1, Len(s) - 1)), s[Len(s)])

\* 'high' if opp.get('monthly_savings', 0) > 100 else 'medium'
CostPriority(opp) == IF Get(opp, "monthly_savings", 0) > 100 THEN "high" ELSE "medium"

CostRecommendations(opps) ==
    [i \in 1..Len(opps) |->
        [source |-> "cost_intelligence", type |-> "cost_optimization",
         priority |-> CostPriority(opps[i]),
         recommendation |-> Get(opps[i], "recommendation", 0)]]

SecurityRecommendations(issues) ==
    [i \in 1..Len(issues) |->
        [source |-> "infrastructure_intelligence", type |-> "security_improvement",
         priority |-> Get(issues[i], "severity", "medium"),
         recommendation |-> Get(issues[i], "recommendation", 0)]]

OperationalRecommendations(insights) ==
    [i \in 1..Len(insights) |->
        [source |-> "operations_intelligence", type |-> "operational_improvement",
         priority |-> Get(insights[i], "severity", "medium"),
         recommendation |-> Get(insights[i], "message", 0)]]

\* LocalAgentOrchestrator._coordinate_recommendations before the sort:
\* cost opportunities, then security issues, then operational insights
CollectRecommendations(res) ==
    LET cost_analysis == Get(res, "cost_analysis", EmptyDict)
        infra_assessment == Get(res, "infrastructure_assessment", EmptyDict)
        ops_analysis == Get(res, "operations_analysis", EmptyDict)
        fromCost == IF Has(cost_analysis, "optimizations")
                    THEN CostRecommendations(Get(cost_analysis.optimizations, "opportunities", <<>>))
                    ELSE <<>>
        fromInfra == SecurityRecommendations(Get(infra_assessment, "security_issues", <<>>))
        fromOps == IF Has(ops_analysis, "dependencies")
                   THEN OperationalRecommendations(Get(ops_analysis.dependencies, "insights", <<>>))
                   ELSE <<>>
    IN fromCost \o fromInfra \o fromOps

\* LocalAgentOrchestrator._coordinate_recommendations
CoordinateRecommendations(res) == SortByPriority(CollectRecommendations(res))

\* scores['overall'] = sum([the four categories]) // 4
OverallOfCategories(sc) ==
    (sc.cost_efficiency + sc.operational_health + sc.security + sc.reliability) \div 4

\* LocalAgentOrchestrator._calculate_overall_scores
CalculateOverallScores(res) ==
    LET cost_analysis == Get(res, "cost_analysis", EmptyDict)
        ops_analysis == Get(res, "operations_analysis", EmptyDict)
        infra_assessment == Get(res, "infrastructure_assessment", EmptyDict)
        base == [cost_efficiency |-> 70, operational_health |-> 70, security |-> 70,
                 reliability |-> 70, overall |-> 70]
        s1 == IF Get(Get(cost_analysis, "optimizations", EmptyDict),
                     "total_potential_monthly_savings", 0) > 200
              THEN [base EXCEPT !.cost_efficiency = @ - 15] ELSE base
        s2 == IF Get(Get(ops_analysis, "performance", EmptyDict), "high_severity", 0) > 0
              THEN [s1 EXCEPT !.operational_health = @ - 10] ELSE s1
        s3 == IF Len(Get(infra_assessment, "security_issues", <<>>)) > 1
              THEN [s2 EXCEPT !.security = @ - 20] ELSE s2
    IN [s3 EXCEPT !.overall = OverallOfCategories(s3)]

\* r.get('success', False)
IsSuccess(r) == Get(r, "success", FALSE)

\* successful_agents = sum(1 for r in results.values() if r.get('success', False))
SuccessfulAgents(res) == Cardinality({k \in DOMAIN res : IsSuccess(res[k])})

\* Success only when every agent succeeded
OverallSuccessAll(res) == SuccessfulAgents(res) = Cardinality(DOMAIN res)

\* overall_success = successful_agents > 0
OverallSuccess(res) == SuccessfulAgents(res) > 0

OrchInit ==
    /\ pc = "cost"
    /\ results = EmptyDict
    /\ errors = <<>>
    /\ invoked = <<>>
    /\ coordinated = <<>>
    /\ scores = EmptyDict
    /\ ret = NoRet

\* results[key] = value
SetKey(d, key, value) == [k \in DOMAIN d \cup {key} |-> IF k = key THEN value ELSE d[k]]

\* A step that abandons the run as soon as an agent does not succeed
InvokeStepFailFast(here, next, agent_name, key, error_msg, b) ==
    /\ pc = here
    /\ invoked' = Append(invoked, agent_name)
    /\ LET r == invoke_agent(use_gateway, agent_name, b) IN
         IF r.raised \/ ~IsSuccess(r.value) THEN
             /\ errors' = Append(errors, error_msg)
             /\ results' = SetKey(results, key, [success |-> FALSE, error |-> error_msg])
             /\ ret' = [success |-> FALSE, error |-> "Orchestration failed"]
             /\ pc' = "done"
         ELSE
             /\ results' = SetKey(results, key, r.value)
             /\ pc' = next
             /\ UNCHANGED <<errors, ret>>
    /\ UNCHANGED <<use_gateway, coordinated, scores>>
    /\ UNCHANGED <<retryVars, coordVars, agentVars, laterVars>>

\* One "try: invoke_agent(...) except Exception: record the failure" step
InvokeStep(here, next, agent_name, key, error_msg, b) ==
    /\ pc = here
    /\ invoked' = Append(invoked, agent_name)
    /\ LET r == invoke_agent(use_gateway, agent_name, b) IN
         IF r.raised THEN
             /\ errors' = Append(errors, error_msg)
             /\ results' = SetKey(results, key, [success |-> FALSE, error |-> error_msg])
         ELSE
             /\ results' = SetKey(results, key, r.value)
             /\ UNCHANGED errors
    /\ pc' = next
    /\ UNCHANGED <<use_gateway, coordinated, scores, ret>>
    /\ UNCHANGED <<retryVars, coordVars, agentVars, laterVars>>

\* Step 1: Cost Analysis
InvokeCost ==
    \E b \in AgentBehaviours("cost_intelligence", use_gateway) :
        InvokeStep("cost", "ops", "cost_intelligence", "cost_analysis",
                   "Cost analysis failed", b)

\* Step 2: Operations Analysis
InvokeOps ==
    \E b \in AgentBehaviours("operations_intelligence", use_gateway) :
        InvokeStep("ops", "infra", "operations_intelligence", "operations_analysis",
                   "Operations analysis failed", b)

\* Step 3: Infrastructure Assessment
InvokeInfra ==
    \E b \in AgentBehaviours("infrastructure_intelligence", use_gateway) :
        InvokeStep("infra", "merge", "infrastructure_intelligence",
                   "infrastructure_assessment", "Infrastructure assessment failed", b)

\* Step 4: coordinated_recommendations = self._coordinate_recommendations(results)
Merge ==
    /\ pc = "merge"
    /\ coordinated' = CoordinateRecommendations(results)
    /\ pc' = "score"
    /\ UNCHANGED <<use_gateway, results, errors, invoked, scores, ret>>
    /\ UNCHANGED <<retryVars, coordVars, agentVars, laterVars>>

\* Step 5: overall_scores = self._calculate_overall_scores(results)
Score ==
    /\ pc = "score"
    /\ scores' = CalculateOverallScores(results)
    /\ pc' = "return"
    /\ UNCHANGED <<use_gateway, results, errors, invoked, coordinated, ret>>
    /\ UNCHANGED <<retryVars, coordVars, agentVars, laterVars>>

\* Determine overall success and return the result envelope
Return ==
    /\ pc = "return"
    /\ ret' = [success |-> OverallSuccess(results),
               orchestration_type |-> "full_aws_operations_analysis",
               results |-> results,
               coordinated_recommendations |-> coordinated,
               overall_scores |-> scores,
               agent_coordination_summary |->
                   [agents_involved |-> 3,
                    successful_agents |-> SuccessfulAgents(results),
                    errors |-> errors]]
    /\ pc' = "done"
    /\ UNCHANGED <<use_gateway, results, errors, invoked, coordinated, scores>>
    /\ UNCHANGED <<retryVars, coordVars, agentVars, laterVars>>

OrchNext == InvokeCost \/ InvokeOps \/ InvokeInfra \/ Merge \/ Score \/ Return

----------------------------------------------------------------------------
\* ============== deployed agents (agents/*/agent.py) =====================

ArchitectureTypes == {"web_app_3tier", "serverless_api"}
Environments == {"prod", "dev"}
Scales == {"small", "medium", "large"}

\* The 'requirements' value of a generate_architecture payload: a dict, or
\* a non-dict value such as None (is_dict = FALSE) on which .get() raises
RequirementsInputs ==
    [is_dict : {TRUE}, type : ArchitectureTypes, environment : Environments, scale : Scales]
    \cup {[is_dict |-> FALSE, type |-> "web_app_3tier", environment |-> "prod", scale |-> "medium"]}

\* InfrastructureIntelligenceAgent._select_intelligent_parameters
SelectIntelligentParameters(scale, environment) ==
    [instance_type |-> IF scale = "small"
                       THEN (IF environment = "prod" THEN "t3.small" ELSE "t3.micro")
                       ELSE IF scale = "large" THEN "c5.xlarge" ELSE "t3.medium",
     desired_capacity |-> IF scale = "small" THEN 2 ELSE IF scale = "large" THEN 6 ELSE 3,
     db_instance_class |-> IF scale = "small" THEN "db.t3.micro"
                           ELSE IF scale = "large" THEN "db.r5.large" ELSE "db.t3.small",
     db_engine |-> "mysql",
     db_storage |-> IF scale = "large" THEN 100 ELSE IF scale = "medium" THEN 50 ELSE 20,
     multi_az |-> IF environment = "prod" THEN "true" ELSE "false",
     deletion_protection |-> IF environment = "prod" THEN "true" ELSE "false"]

\* instance_costs / db_costs price tables, in tenths of a dollar
InstanceCost(instance_type) ==
    IF instance_type = "t3.micro" THEN 85
    ELSE IF instance_type = "t3.small" THEN 170
    ELSE IF instance_type = "t3.medium" THEN 340
    ELSE IF instance_type = "c5.large" THEN 730
    ELSE IF instance_type = "c5.xlarge" THEN 1460
    ELSE 340

DbCost(db_class) ==
    IF db_class = "db.t3.micro" THEN 150
    ELSE IF db_class = "db.t3.small" THEN 300
    ELSE IF db_class = "db.r5.large" THEN 1800
    ELSE 300

\* InfrastructureIntelligenceAgent._estimate_cost, in tenths of a dollar
EstimateCost(architecture_type, params) ==
    IF architecture_type = "web_app_3tier" THEN
        InstanceCost(params.instance_type) * params.desired_capacity
        + DbCost(params.db_instance_class) + 230 + 500
    ELSE IF architecture_type = "serverless_api" THEN 250
    ELSE 0

\* InfrastructureIntelligenceAgent._calculate_security_score
CalculateSecurityScore(architecture_type) ==
    IF architecture_type = "web_app_3tier" THEN 85
    ELSE IF architecture_type = "serverless_api" THEN 90
    ELSE IF architecture_type = "microservices" THEN 80
    ELSE 75

Min(a, b) == IF a <= b THEN a ELSE b

\* InfrastructureIntelligenceAgent._calculate_reliability_score
CalculateReliabilityScore(architecture_type, params) ==
    LET base_score ==
            IF architecture_type = "web_app_3tier" THEN
                80 + (IF params.multi_az = "true" THEN 10 ELSE 0)
                   + (IF params.desired_capacity >= 2 THEN 5 ELSE 0)
            ELSE IF architecture_type = "serverless_api" THEN 95
            ELSE 70
    IN Min(base_score, 100)

\* InfrastructureIntelligenceAgent.generate_architecture: the report, or
\* {'error': ...} when anything inside raised
GenerateArchitecture(requirements) ==
    IF ~requirements.is_dict THEN
        [error |-> "Architecture generation failed"]
    ELSE
        LET params == SelectIntelligentParameters(requirements.scale, requirements.environment)
        IN [cloudformation_template |-> "rendered_template",
            parameters |-> params,
            estimated_monthly_cost |-> EstimateCost(requirements.type, params),
            security_score |-> CalculateSecurityScore(requirements.type),
            reliability_score |-> CalculateReliabilityScore(requirements.type, params)]

\* Ingress rules returned by describe_security_groups
Ports == {22, 3389, 8080}
Cidrs == {"0.0.0.0/0", "10.0.0.0/8"}
IngressRules == [FromPort : Ports, CidrIp : Cidrs]

\* 'high' if rule.get('FromPort') == 22 else 'medium'
AssessSeverity(rule) == IF rule.FromPort = 22 THEN "high" ELSE "medium"

RECURSIVE OpenRuleIssues(_)
OpenRuleIssues(rules) ==
    IF rules = <<>> THEN <<>>
    ELSE (IF Head(rules).CidrIp = "0.0.0.0/0"
          THEN <<[issue_port |-> Head(rules).FromPort,
                  severity |-> AssessSeverity(Head(rules)),
                  recommendation |-> "Restrict source IP ranges"]>>
          ELSE <<>>) \o OpenRuleIssues(Tail(rules))

\* InfrastructureIntelligenceAgent.assess_existing_infrastructure: the
\* assessment, or {'error': ...} when a provider call raised
AssessExistingInfrastructure(provider_ok, rules) ==
    IF ~provider_ok THEN [error |-> "Infrastructure assessment failed"]
    ELSE [security_issues |-> OpenRuleIssues(rules)]

\* the three trailing assignments of every invoke()
Stamp(result, agent_name) ==
    [k \in DOMAIN result \cup {"agent", "success"} |->
        IF k = "agent" THEN agent_name
        ELSE IF k = "success" THEN TRUE
        ELSE result[k]]

ReadyMessage == [message |-> "Agent ready"]

\* agents/infrastructure_intelligence/agent.py invoke
InfraInvoke(payload_is_dict, action, requirements, provider_ok, rules) ==
    IF ~payload_is_dict THEN AgentFailure("infrastructure_intelligence")
    ELSE Stamp(IF action = "generate_architecture" THEN GenerateArchitecture(requirements)
               ELSE IF action = "assess_existing"
                    THEN AssessExistingInfrastructure(provider_ok, rules)
               ELSE ReadyMessage,
               "infrastructure_intelligence")

\* OperationsIntelligenceAgent.map_resource_dependencies
MapResourceDependencies(provider_ok, sevs) ==
    IF ~provider_ok THEN DependenciesError ELSE Dependencies(sevs)

\* OperationsIntelligenceAgent.analyze_performance_bottlenecks
AnalyzePerformanceBottlenecks(provider_ok, high) ==
    IF ~provider_ok THEN PerformanceError ELSE Performance(high)

\* agents/operations_intelligence/agent.py invoke
OpsInvoke(payload_is_dict, action, deps_ok, sevs, perf_ok, high) ==
    IF ~payload_is_dict THEN AgentFailure("operations_intelligence")
    ELSE Stamp(IF action = "map_dependencies" THEN MapResourceDependencies(deps_ok, sevs)
               ELSE IF action = "analyze_performance"
                    THEN AnalyzePerformanceBottlenecks(perf_ok, high)
               ELSE IF action = "full_operations_analysis" THEN
                    LET dependencies == MapResourceDependencies(deps_ok, sevs)
                        performance == AnalyzePerformanceBottlenecks(perf_ok, high)
                    IN [dependencies |-> dependencies,
                        performance |-> performance,
                        summary |-> [total_resources |-> Get(dependencies, "total_resources", 0),
                                     performance_issues |-> Get(performance, "total_issues", 0)]]
               ELSE ReadyMessage,
               "operations_intelligence")

\* severities map_resource_dependencies attaches to its insights
DependencySeverities == {"high", "medium", "low"}

AgentInit ==
    /\ ag_calls = 0
    /\ ag_last = [agent |-> "none", action |-> "none"]
    /\ ag_ret = NoRet

\* One call of the infrastructure agent's entry point
InfraAgentCall ==
    /\ ag_calls < MaxAgentCalls
    /\ \E payload_is_dict \in BOOLEAN,
          action \in {"generate_architecture", "assess_existing", "status"} :
         \E requirements \in (IF action = "generate_architecture" THEN RequirementsInputs
                              ELSE {CHOOSE r \in RequirementsInputs : ~r.is_dict}),
            provider_ok \in (IF action = "assess_existing" THEN BOOLEAN ELSE {TRUE}),
            rules \in (IF action = "assess_existing" THEN SeqsUpTo(IngressRules, MaxItems)
                       ELSE {<<>>}) :
            /\ ag_ret' = InfraInvoke(payload_is_dict, action, requirements, provider_ok, rules)
            /\ ag_last' = [agent |-> "infrastructure_intelligence", action |-> action]
    /\ ag_calls' = ag_calls + 1
    /\ UNCHANGED <<retryVars, orchVars, coordVars, laterVars>>

\* One call of the operations agent's entry point
OpsAgentCall ==
    /\ ag_calls < MaxAgentCalls
    /\ \E payload_is_dict \in BOOLEAN,
          action \in {"map_dependencies", "analyze_performance",
                      "full_operations_analysis", "status"} :
         \E deps_ok \in BOOLEAN, perf_ok \in BOOLEAN, high \in 0..1,
            sevs \in (IF action \in {"map_dependencies", "full_operations_analysis"}
                      THEN SeqsUpTo(DependencySeverities, MaxItems) ELSE {<<>>}) :
            /\ ag_ret' = OpsInvoke(payload_is_dict, action, deps_ok, sevs, perf_ok, high)
            /\ ag_last' = [agent |-> "operations_intelligence", action |-> action]
    /\ ag_calls' = ag_calls + 1
    /\ UNCHANGED <<retryVars, orchVars, coordVars, laterVars>>

AgentNext == InfraAgentCall \/ OpsAgentCall

----------------------------------------------------------------------------
\* ======================= AgentCoordinator ===============================

\* What invoke_agent_runtime can do: answer 200 with the agent's envelope,
\* answer another status code, or raise
RuntimeBehaviours(returns) ==
    [kind : {"return"}, value : returns]
    \cup [kind : {"status", "raise"}, value : {EmptyDict}]

\* Envelopes of the operations agent for action map_dependencies
MapDependenciesReturns ==
    {OpsInvoke(TRUE, "map_dependencies", ok, sevs, TRUE, 0) :
        ok \in BOOLEAN, sevs \in SeqsUpTo(DependencySeverities, MaxItems)}
    \cup {AgentFailure("operations_intelligence")}

\* Envelopes of the infrastructure agent for action generate_architecture
GenerateArchitectureReturns ==
    {InfraInvoke(TRUE, "generate_architecture", req, TRUE, <<>>) : req \in RequirementsInputs}
    \cup {AgentFailure("infrastructure_intelligence")}

\* AgentCoordinator.invoke_agent
CoordInvokeAgent(agents, agent_name, b) ==
    IF ~Get(agents, agent_name, FALSE) THEN [error |-> "Agent not configured"]
    ELSE IF b.kind = "raise" THEN [error |-> "Agent invocation error"]
    ELSE IF b.kind = "status" THEN [error |-> "Agent invocation failed"]
    ELSE b.value

\* AgentCoordinator._coordinate_recommendations before the sort
CoordCollectRecommendations(res) ==
    LET cost_ops == Get(Get(Get(res, "cost_analysis", EmptyDict), "optimizations", EmptyDict),
                        "opportunities", <<>>)
        ops_insights == Get(Get(res, "dependencies", EmptyDict), "insights", <<>>)
    IN CostRecommendations(cost_ops) \o OperationalRecommendations(ops_insights)

\* AgentCoordinator._coordinate_recommendations
CoordCoordinateRecommendations(res) == SortByPriority(CoordCollectRecommendations(res))

\* AgentCoordinator._calculate_total_savings
CalculateTotalSavings(res) ==
    LET cost_analysis == Get(res, "cost_analysis", EmptyDict)
        total_monthly == IF Has(cost_analysis, "optimizations")
                         THEN Get(cost_analysis.optimizations, "total_potential_monthly_savings", 0)
                         ELSE 0
    IN [monthly_savings |-> total_monthly, annual_savings |-> total_monthly * 12]

\* scores['overall'] = sum(scores.values()) // 4, evaluated while
\* scores['overall'] still holds its initial 70
CoordOverall(sc) ==
    (sc.cost_efficiency + sc.operational_health + sc.security + sc.reliability
     + sc.overall) \div 4

\* AgentCoordinator._calculate_overall_score
CoordCalculateOverallScore(res) ==
    LET costs == Get(res, "costs", EmptyDict)
        ops == Get(res, "operations", EmptyDict)
        infrastructure == Get(res, "infrastructure", EmptyDict)
        base == [cost_efficiency |-> 70, operational_health |-> 70, security |-> 70,
                 reliability |-> 70, overall |-> 70]
        s1 == IF Get(Get(costs, "optimizations", EmptyDict),
                     "total_potential_monthly_savings", 0) > 1000
              THEN [base EXCEPT !.cost_efficiency = @ - 20] ELSE base
        s2 == IF Get(Get(ops, "performance", EmptyDict), "high_severity", 0) > 0
              THEN [s1 EXCEPT !.operational_health = @ - 15] ELSE s1
        s3 == IF Len(Get(infrastructure, "security_issues", <<>>)) > 5
              THEN [s2 EXCEPT !.security = @ - 25] ELSE s2
    IN [s3 EXCEPT !.overall = CoordOverall(s3)]

CoordInit ==
    /\ co_agents = [n \in AgentNameSet |-> FALSE]
    /\ co_pc = "idle"
    /\ co_results = EmptyDict
    /\ co_invoked = <<>>
    /\ co_ret = NoRet

\* AgentCoordinator.set_agent_arns
SetAgentArns ==
    /\ co_pc = "idle"
    /\ \E arns \in (SUBSET AgentNameSet) \ {{}} :
          co_agents' = [n \in AgentNameSet |-> IF n \in arns THEN TRUE ELSE co_agents[n]]
    /\ UNCHANGED <<co_pc, co_results, co_invoked, co_ret>>
    /\ UNCHANGED <<retryVars, orchVars, agentVars, laterVars>>

\* results[key] = await self.invoke_agent(agent_name, ...)
CoordInvokeStep(here, next, agent_name, key, returns) ==
    /\ co_pc = here
    /\ \E b \in RuntimeBehaviours(returns) :
          co_results' = SetKey(co_results, key, CoordInvokeAgent(co_agents, agent_name, b))
    /\ co_invoked' = Append(co_invoked, agent_name)
    /\ co_pc' = next
    /\ UNCHANGED <<co_agents, co_ret>>
    /\ UNCHANGED <<retryVars, orchVars, agentVars, laterVars>>

\* orchestrate_infrastructure_assessment, Step 1: operations analysis
AssessInvokeOps ==
    CoordInvokeStep("idle", "ia_cost", "operations_intelligence", "operations",
                    AgentReturns("operations_intelligence"))

\* orchestrate_infrastructure_assessment, Step 2: cost analysis
AssessInvokeCost ==
    CoordInvokeStep("ia_cost", "ia_infra", "cost_intelligence", "costs",
                    AgentReturns("cost_intelligence"))

\* orchestrate_infrastructure_assessment, Step 3: infrastructure assessment
AssessInvokeInfra ==
    CoordInvokeStep("ia_infra", "ia_return", "infrastructure_intelligence", "infrastructure",
                    AgentReturns("infrastructure_intelligence"))

\* orchestrate_infrastructure_assessment: build and return the envelope
AssessReturn ==
    /\ co_pc = "ia_return"
    /\ co_ret' = [success |-> TRUE,
                  orchestration_type |-> "infrastructure_assessment",
                  results |-> co_results,
                  overall_score |-> CoordCalculateOverallScore(co_results)]
    /\ co_pc' = "done"
    /\ UNCHANGED <<co_agents, co_results, co_invoked>>
    /\ UNCHANGED <<retryVars, orchVars, agentVars, laterVars>>

\* orchestrate_cost_optimization, Step 1: analyze current costs
OptimizeInvokeCost ==
    CoordInvokeStep("idle", "co_deps", "cost_intelligence", "cost_analysis",
                    AgentReturns("cost_intelligence"))

\* orchestrate_cost_optimization, Step 2: map dependencies
OptimizeInvokeDependencies ==
    \E generate \in BOOLEAN :
        CoordInvokeStep("co_deps", IF generate THEN "co_arch" ELSE "co_return",
                        "operations_intelligence", "dependencies", MapDependenciesReturns)

\* orchestrate_cost_optimization, Step 3: generate optimized infrastructure
\* (only when requirements['generate_optimized_architecture'] is set)
OptimizeInvokeArchitecture ==
    CoordInvokeStep("co_arch", "co_return", "infrastructure_intelligence",
                    "optimized_architecture", GenerateArchitectureReturns)

\* orchestrate_cost_optimization, Step 4: coordinate and return
OptimizeReturn ==
    /\ co_pc = "co_return"
    /\ co_ret' = [success |-> TRUE,
                  orchestration_type |-> "cost_optimization",
                  results |-> co_results,
                  coordinated_recommendations |-> CoordCoordinateRecommendations(co_results),
                  estimated_savings |-> CalculateTotalSavings(co_results)]
    /\ co_pc' = "done"
    /\ UNCHANGED <<co_agents, co_results, co_invoked>>
    /\ UNCHANGED <<retryVars, orchVars, agentVars, laterVars>>

CoordNext ==
    \/ SetAgentArns
    \/ AssessInvokeOps \/ AssessInvokeCost \/ AssessInvokeInfra \/ AssessReturn
    \/ OptimizeInvokeCost \/ OptimizeInvokeDependencies \/ OptimizeInvokeArchitecture
    \/ OptimizeReturn

----------------------------------------------------------------------------
\* ============== SimpleCache and cached (utils/cache.py) =================

\* Python None
None == [none |-> TRUE]

\* Values callers store with cache.set
CacheValues == {[data |-> 1], [data |-> 2]}

\* Keys callers use with cache.get / cache.set / cache.delete
DirectKeys == {"a", "b"}

\* The ttl argument: omitted (None) or an integer number of seconds
TtlArgs == {[given |-> FALSE, value |-> 0]} \cup [given : {TRUE}, value : 0..MaxTtl]

\* A ttl of 0 taken literally: only None falls back to the default
EffectiveTtlZeroKept(ttl, default_ttl) ==
    IF ttl.given THEN ttl.value ELSE default_ttl

\* ttl = ttl or self.default_ttl: None and 0 both fall back to the default
EffectiveTtl(ttl, default_ttl) ==
    IF ttl.given /\ ttl.value # 0 THEN ttl.value ELSE default_ttl

\* A freshness test that still serves an entry at its expiry time
IsFreshInclusive(now, expiry) == now <= expiry

\* if time.time() < expiry
IsFresh(now, expiry) == now < expiry

\* self._cache[key] = (value, expiry)
StoreSet(store, key, value, expiry) ==
    [k \in DOMAIN store \cup {key} |->
        IF k = key THEN [value |-> value, expiry |-> expiry] ELSE store[k]]

\* del self._cache[key]
StoreDel(store, key) == [k \in DOMAIN store \ {key} |-> store[k]]

\* SimpleCache.get: the value returned
GetResult(store, key, now) ==
    IF key \in DOMAIN store /\ IsFresh(now, store[key].expiry)
    THEN store[key].value ELSE None

\* SimpleCache.get: the store it leaves (an expired entry is deleted)
GetStore(store, key, now) ==
    IF key \in DOMAIN store /\ ~IsFresh(now, store[key].expiry)
    THEN StoreDel(store, key) ELSE store

\* Arguments and results of the function wrapped by @cached
FuncArgs == {1, 2}
FuncResults == {None, [success |-> TRUE, data |-> 1], [success |-> FALSE, error |-> "failed"]}

\* cache_key = key_prefix + md5(json.dumps({'func': name, 'args': args, ...}))
CacheKey(key_prefix, func_name, arg) ==
    key_prefix \o "md5(" \o func_name \o "," \o ToString(arg) \o ")"

WrapperKeys == {CacheKey("", "f", a) : a \in FuncArgs}
AllKeys == DirectKeys \cup WrapperKeys

\* What the latest set or delete of a key did (never evicted by reads)
Written(value, expiry) == [state |-> "set", value |-> value, expiry |-> expiry]
NeverWritten == [state |-> "never"]
Deleted == [state |-> "deleted"]

CacheInit ==
    /\ c_now = 0
    /\ c_store = EmptyDict
    /\ c_written = [k \in AllKeys |-> NeverWritten]
    /\ c_last = [op |-> "none"]
    /\ c_ops = 0

\* time passes between calls
Tick ==
    /\ c_now < MaxTime
    /\ c_now' = c_now + 1
    /\ UNCHANGED <<c_default_ttl, c_ttl, c_store, c_written, c_last, c_ops>>
    /\ UNCHANGED notCacheVars

\* cache.set(key, value, ttl)
CacheSet(key, value, ttl) ==
    /\ c_ops < MaxCacheOps
    /\ LET expiry == c_now + EffectiveTtl(ttl, c_default_ttl) IN
         /\ c_store' = StoreSet(c_store, key, value, expiry)
         /\ c_written' = [c_written EXCEPT ![key] = Written(value, expiry)]
    /\ c_last' = [op |-> "set", key |-> key, ret |-> None, at |-> c_now, ttl |-> ttl]
    /\ c_ops' = c_ops + 1
    /\ UNCHANGED <<c_default_ttl, c_ttl, c_now>>
    /\ UNCHANGED notCacheVars

\* cache.get(key)
CacheGet(key) ==
    /\ c_ops < MaxCacheOps
    /\ c_store' = GetStore(c_store, key, c_now)
    /\ c_last' = [op |-> "get", key |-> key, ret |-> GetResult(c_store, key, c_now),
                  at |-> c_now]
    /\ c_ops' = c_ops + 1
    /\ UNCHANGED <<c_default_ttl, c_ttl, c_now, c_written>>
    /\ UNCHANGED notCacheVars

\* cache.delete(key)
CacheDelete(key) ==
    /\ c_ops < MaxCacheOps
    /\ c_store' = StoreDel(c_store, key)
    /\ c_written' = [c_written EXCEPT ![key] = Deleted]
    /\ c_last' = [op |-> "delete", key |-> key,
                  ret |-> [deleted |-> key \in DOMAIN c_store], at |-> c_now]
    /\ c_ops' = c_ops + 1
    /\ UNCHANGED <<c_default_ttl, c_ttl, c_now>>
    /\ UNCHANGED notCacheVars

\* cache.cleanup_expired()
CacheCleanupExpired ==
    /\ c_ops < MaxCacheOps
    /\ LET expired_keys == {k \in DOMAIN c_store : c_now >= c_store[k].expiry} IN
         /\ c_store' = [k \in DOMAIN c_store \ expired_keys |-> c_store[k]]
         /\ c_last' = [op |-> "cleanup_expired", key |-> "",
                       ret |-> [removed |-> Cardinality(expired_keys)], at |-> c_now]
    /\ c_ops' = c_ops + 1
    /\ UNCHANGED <<c_default_ttl, c_ttl, c_now, c_written>>
    /\ UNCHANGED notCacheVars

\* wrapper.cache_clear(): cache.clear()
CacheClear ==
    /\ c_ops < MaxCacheOps
    /\ c_store' = EmptyDict
    /\ c_written' = [k \in AllKeys |-> IF c_written[k].state = "set" THEN Deleted
                                       ELSE c_written[k]]
    /\ c_last' = [op |-> "clear", key |-> "", ret |-> None, at |-> c_now]
    /\ c_ops' = c_ops + 1
    /\ UNCHANGED <<c_default_ttl, c_ttl, c_now>>
    /\ UNCHANGED notCacheVars

\* One call f(arg) of a function decorated with @cached(ttl=c_ttl): look the key
\* up, return a hit, otherwise run func (which returns r) and store r
CachedCall(arg, r) ==
    /\ c_ops < MaxCacheOps
    /\ LET cache_key == CacheKey("", "f", arg)
           result == GetResult(c_store, cache_key, c_now)
           after_get == GetStore(c_store, cache_key, c_now)
       IN IF result # None THEN
              /\ c_store' = after_get
              /\ c_last' = [op |-> "call", key |-> cache_key, ret |-> result, at |-> c_now,
                            invoked |-> FALSE, before |-> c_written[cache_key]]
              /\ UNCHANGED c_written
          ELSE
              LET expiry == c_now + EffectiveTtl(c_ttl, c_default_ttl) IN
              /\ c_store' = StoreSet(after_get, cache_key, r, expiry)
              /\ c_written' = [c_written EXCEPT ![cache_key] = Written(r, expiry)]
              /\ c_last' = [op |-> "call", key |-> cache_key, ret |-> r, at |-> c_now,
                            invoked |-> TRUE, before |-> c_written[cache_key]]
    /\ c_ops' = c_ops + 1
    /\ UNCHANGED <<c_default_ttl, c_ttl, c_now>>
    /\ UNCHANGED notCacheVars

\* Direct use of the cache object
CacheNext ==
    \/ Tick
    \/ \E key \in DirectKeys, value \in CacheValues, ttl \in TtlArgs : CacheSet(key, value, ttl)
    \/ \E key \in DirectKeys : CacheGet(key)
    \/ \E key \in DirectKeys : CacheDelete(key)
    \/ CacheCleanupExpired

\* Use of the cache through a decorated function
MemoNext ==
    \/ Tick
    \/ \E arg \in FuncArgs, r \in FuncResults : CachedCall(arg, r)
    \/ \E key \in WrapperKeys : CacheDelete(key)
    \/ CacheCleanupExpired
    \/ CacheClear

----------------------------------------------------------------------------
\* ============== several threads on one SimpleCache ======================
\* SimpleCache holds no lock: a thread switch can fall between any two
\* statements of a method, so each access to self._cache is one step.

Threads == {1, 2}

ThreadInit ==
    /\ th_pc = [t \in Threads |-> "idle"]
    /\ th_loc = [t \in Threads |-> EmptyDict]
    /\ th_ret = [t \in Threads |-> [op |-> "none"]]
    /\ th_everset = [k \in DirectKeys |-> {}]

\* a thread moves to pc with locals loc; the shared dict and the rest stay
Goto(t, next, loc) ==
    /\ th_pc' = [th_pc EXCEPT ![t] = next]
    /\ th_loc' = [th_loc EXCEPT ![t] = loc]

\* a call returns
Returns(t, op, key, value) ==
    /\ Goto(t, "idle", EmptyDict)
    /\ th_ret' = [th_ret EXCEPT ![t] = [op |-> op, key |-> key, ret |-> value]]

\* an exception leaves the method and ends the thread's call
Raises(t, op, exception) ==
    /\ Goto(t, "raised", [op |-> op, exception |-> exception])
    /\ UNCHANGED th_ret

\* a thread calls a method of the shared cache
ThreadCall(t, op, key) ==
    /\ th_pc[t] = "idle"
    /\ c_ops < MaxThreadOps
    /\ c_ops' = c_ops + 1
    /\ IF op = "cleanup_expired"
       THEN Goto(t, "cleanup_iter",
                 [current_time |-> c_now, size |-> Cardinality(DOMAIN c_store),
                  seen |-> {}, expired_keys |-> {}])
       ELSE Goto(t, op \o "_check", [key |-> key])
    /\ UNCHANGED <<c_store, th_ret, th_everset>>
    /\ UNCHANGED notConcVars

\* get, line 22: if key in self._cache
ThreadGetCheck(t) ==
    /\ th_pc[t] = "get_check"
    /\ IF th_loc[t].key \in DOMAIN c_store
       THEN Goto(t, "get_read", th_loc[t]) /\ UNCHANGED th_ret
       ELSE Returns(t, "get", th_loc[t].key, None)
    /\ UNCHANGED <<c_store, c_ops, th_everset>>
    /\ UNCHANGED notConcVars

\* get, line 23: value, expiry = self._cache[key]
ThreadGetRead(t) ==
    /\ th_pc[t] = "get_read"
    /\ LET key == th_loc[t].key IN
         IF key \in DOMAIN c_store
         THEN /\ Goto(t, "get_compare",
                      [key |-> key, value |-> c_store[key].value,
                       expiry |-> c_store[key].expiry])
              /\ UNCHANGED th_ret
         ELSE Raises(t, "get", "KeyError")
    /\ UNCHANGED <<c_store, c_ops, th_everset>>
    /\ UNCHANGED notConcVars

\* get, lines 24-25: if time.time() < expiry: return value
ThreadGetCompare(t) ==
    /\ th_pc[t] = "get_compare"
    /\ IF IsFresh(c_now, th_loc[t].expiry)
       THEN Returns(t, "get", th_loc[t].key, th_loc[t].value)
       ELSE Goto(t, "get_del", th_loc[t]) /\ UNCHANGED th_ret
    /\ UNCHANGED <<c_store, c_ops, th_everset>>
    /\ UNCHANGED notConcVars

\* get, lines 27-28: del self._cache[key]; return None
ThreadGetDel(t) ==
    /\ th_pc[t] = "get_del"
    /\ LET key == th_loc[t].key IN
         IF key \in DOMAIN c_store
         THEN /\ c_store' = StoreDel(c_store, key)
              /\ Returns(t, "get", key, None)
         ELSE /\ Raises(t, "get", "KeyError")
              /\ UNCHANGED c_store
    /\ UNCHANGED <<c_ops, th_everset>>
    /\ UNCHANGED notConcVars

\* set, lines 32-34: one store into self._cache
ThreadSet(t, key, value) ==
    /\ th_pc[t] = "idle"
    /\ c_ops < MaxThreadOps
    /\ c_ops' = c_ops + 1
    /\ c_store' = StoreSet(c_store, key, value,
                           c_now + EffectiveTtl([given |-> FALSE, value |-> 0], c_default_ttl))
    /\ th_everset' = [th_everset EXCEPT ![key] = @ \cup {value}]
    /\ Returns(t, "set", key, None)
    /\ UNCHANGED notConcVars

\* delete, line 38: if key in self._cache
ThreadDeleteCheck(t) ==
    /\ th_pc[t] = "delete_check"
    /\ IF th_loc[t].key \in DOMAIN c_store
       THEN Goto(t, "delete_del", th_loc[t]) /\ UNCHANGED th_ret
       ELSE Returns(t, "delete", th_loc[t].key, [deleted |-> FALSE])
    /\ UNCHANGED <<c_store, c_ops, th_everset>>
    /\ UNCHANGED notConcVars

\* delete, lines 39-40: del self._cache[key]; return True
ThreadDeleteDel(t) ==
    /\ th_pc[t] = "delete_del"
    /\ LET key == th_loc[t].key IN
         IF key \in DOMAIN c_store
         THEN /\ c_store' = StoreDel(c_store, key)
              /\ Returns(t, "delete", key, [deleted |-> TRUE])
         ELSE /\ Raises(t, "delete", "KeyError")
              /\ UNCHANGED c_store
    /\ UNCHANGED <<c_ops, th_everset>>
    /\ UNCHANGED notConcVars

\* cleanup_expired, lines 54-57: one step of the iteration over
\* self._cache.items(); the dict iterator raises RuntimeError when the dict
\* changed size since the iteration began
ThreadCleanupIter(t) ==
    /\ th_pc[t] = "cleanup_iter"
    /\ LET loc == th_loc[t]
           unseen == DOMAIN c_store \ loc.seen
       IN IF Cardinality(DOMAIN c_store) # loc.size THEN
              Raises(t, "cleanup_expired", "RuntimeError")
          ELSE IF unseen = {} THEN
              Goto(t, "cleanup_del", [loc EXCEPT !.size = Cardinality(loc.expired_keys)])
              /\ UNCHANGED th_ret
          ELSE
              \E key \in unseen :
                  /\ Goto(t, "cleanup_iter",
                          [loc EXCEPT !.seen = @ \cup {key},
                                      !.expired_keys =
                                          IF loc.current_time >= c_store[key].expiry
                                          THEN @ \cup {key} ELSE @])
                  /\ UNCHANGED th_ret
    /\ UNCHANGED <<c_store, c_ops, th_everset>>
    /\ UNCHANGED notConcVars

\* cleanup_expired, lines 59-62: for key in expired_keys: del self._cache[key]
ThreadCleanupDel(t) ==
    /\ th_pc[t] = "cleanup_del"
    /\ LET loc == th_loc[t] IN
         IF loc.expired_keys = {} THEN
             /\ Returns(t, "cleanup_expired", "", [removed |-> loc.size])
             /\ UNCHANGED c_store
         ELSE
             \E key \in loc.expired_keys :
                 IF key \in DOMAIN c_store
                 THEN /\ c_store' = StoreDel(c_store, key)
                      /\ Goto(t, "cleanup_del", [loc EXCEPT !.expired_keys = @ \ {key}])
                      /\ UNCHANGED th_ret
                 ELSE /\ Raises(t, "cleanup_expired", "KeyError")
                      /\ UNCHANGED c_store
    /\ UNCHANGED <<c_ops, th_everset>>
    /\ UNCHANGED notConcVars

ThreadNext ==
    \/ Tick
    \/ \E t \in Threads, op \in {"get", "delete"}, key \in DirectKeys : ThreadCall(t, op, key)
    \/ \E t \in Threads : ThreadCall(t, "cleanup_expired", "")
    \/ \E t \in Threads, key \in DirectKeys, value \in CacheValues : ThreadSet(t, key, value)
    \/ \E t \in Threads :
          \/ ThreadGetCheck(t) \/ ThreadGetRead(t) \/ ThreadGetCompare(t) \/ ThreadGetDel(t)
          \/ ThreadDeleteCheck(t) \/ ThreadDeleteDel(t)
          \/ ThreadCleanupIter(t) \/ ThreadCleanupDel(t)

----------------------------------------------------------------------------
\* ============== orchestrate_smart_architecture_design ===================
\* Money is in tenths of a dollar throughout, as in EstimateCost.

\* requirements['budget_limit']: absent (float('inf')) or an amount
BudgetLimits ==
    {[given |-> FALSE, value |-> 0]}
    \cup [given : {TRUE}, value : {500, 1000, 3000, 10000, 20000}]

\* The requirements argument of a design run
DesignRequirements ==
    [type : ArchitectureTypes, environment : {"prod"}, scale : Scales, budget_limit : BudgetLimits]

\* agent/infrastructure_intelligence_agent.py invoke, action
\* generate_architecture: the canned design for the requested scale
LocalGenerateArchitecture(requirements) ==
    LET scale == requirements.scale IN
    [agent |-> "infrastructure_intelligence", success |-> TRUE,
     architecture_type |-> requirements.type,
     parameters |-> [instance_type |-> IF scale = "small" THEN "t3.small"
                                       ELSE IF scale = "medium" THEN "t3.medium" ELSE "c5.large",
                     desired_capacity |-> IF scale = "small" THEN 2
                                          ELSE IF scale = "medium" THEN 3 ELSE 6,
                     multi_az |-> scale # "small"],
     estimated_monthly_cost |-> IF scale = "small" THEN 1500
                                ELSE IF scale = "medium" THEN 4000 ELSE 12000,
     security_score |-> 85,
     reliability_score |-> IF scale # "small" THEN 90 ELSE 75]

\* agents/infrastructure_intelligence/agent.py invoke, same action
DeployedGenerateArchitecture(requirements) ==
    InfraInvoke(TRUE, "generate_architecture",
                [is_dict |-> TRUE, type |-> requirements.type,
                 environment |-> requirements.environment, scale |-> requirements.scale],
                TRUE, <<>>)

\* self.invoke_agent(agent_name, payload) of the coordinator in use, given
\* what the agent's backend does (b) and the envelope it would return
DesignInvokeAgent(agent_name, b, local_value, deployed_value) ==
    IF d_impl = "coordinator" THEN
        CoordInvokeAgent(co_agents, agent_name, [kind |-> b, value |-> deployed_value])
    ELSE IF use_gateway THEN
        invoke_agent(TRUE, agent_name, [kind |-> b, value |-> deployed_value]).value
    ELSE invoke_agent(FALSE, agent_name, [kind |-> b, value |-> local_value]).value

\* What the backend of an agent can do, for the coordinator in use
DesignBackendBehaviours ==
    IF d_impl = "coordinator" THEN {"return", "status", "raise"}
    ELSE IF use_gateway THEN {"return", "raise", "nochunk"}
    ELSE {"return", "raise"}

\* An architecture result without an estimate taken as the costliest design
EstimatedCostMissingIsLarge(initial_arch) ==
    Get(initial_arch, "estimated_monthly_cost", 12000)

\* estimated_cost = initial_arch.get('estimated_monthly_cost', 0)
EstimatedCost(initial_arch) ==
    Get(initial_arch, "estimated_monthly_cost", 0)

\* estimated_cost > budget_limit
ExceedsBudget(estimated_cost, budget_limit) ==
    budget_limit.given /\ estimated_cost > budget_limit.value

\* estimated_cost > budget_limit * 2
ExceedsTwiceBudget(estimated_cost, budget_limit) ==
    budget_limit.given /\ estimated_cost > budget_limit.value * 2

\* 'scale': 'small' if estimated_cost > budget_limit * 2 else 'medium'
OptimizedScale(estimated_cost, budget_limit) ==
    IF ExceedsTwiceBudget(estimated_cost, budget_limit) THEN "small" ELSE "medium"

\* optimized_requirements: the orchestrator replaces the scale, the
\* AgentCoordinator adds cost_optimization and budget_constraint
OptimizedRequirements(impl, requirements, estimated_cost) ==
    IF impl = "orchestrator" THEN
        [requirements EXCEPT !.scale = OptimizedScale(estimated_cost, requirements.budget_limit)]
    ELSE
        [k \in DOMAIN requirements \cup {"cost_optimization", "budget_constraint"} |->
            IF k = "cost_optimization" THEN TRUE
            ELSE IF k = "budget_constraint" THEN requirements.budget_limit
            ELSE requirements[k]]

\* A step that regenerates whatever the estimate was
BudgetCheckAlwaysRegenerate(estimated_cost, budget_limit) == TRUE

\* if estimated_cost > budget_limit
BudgetCheck(estimated_cost, budget_limit) == ExceedsBudget(estimated_cost, budget_limit)

DesignInit ==
    /\ d_pc = "start"
    /\ d_results = EmptyDict
    /\ d_calls = <<>>
    /\ d_ret = NoRet

\* AgentCoordinator.set_agent_arns before a design run of the coordinator
DesignSetAgentArns ==
    /\ d_impl = "coordinator"
    /\ d_pc = "start"
    /\ co_pc = "idle"
    /\ \E arns \in {AgentNameSet, {"infrastructure_intelligence"}} :
          co_agents' = [n \in AgentNameSet |-> IF n \in arns THEN TRUE ELSE co_agents[n]]
    /\ UNCHANGED designVars
    /\ UNCHANGED notDesignVars

\* Step 1: generate the initial architecture
DesignInitial ==
    /\ d_pc = "start"
    /\ \E b \in DesignBackendBehaviours :
          d_results' = SetKey(d_results, "initial_architecture",
                              DesignInvokeAgent("infrastructure_intelligence", b,
                                                LocalGenerateArchitecture(d_req),
                                                DeployedGenerateArchitecture(d_req)))
    /\ d_calls' = Append(d_calls, [agent |-> "infrastructure_intelligence",
                                   scale |-> d_req.scale])
    /\ d_pc' = "budget"
    /\ UNCHANGED <<d_impl, d_req, d_ret, co_agents>>
    /\ UNCHANGED notDesignVars

\* Step 2: compare the estimate with the budget
DesignBudgetCheck ==
    /\ d_pc = "budget"
    /\ LET estimated_cost == EstimatedCost(d_results.initial_architecture)
       IN d_pc' = IF BudgetCheck(estimated_cost, d_req.budget_limit) THEN "cost" ELSE "return"
    /\ UNCHANGED <<d_impl, d_req, d_results, d_calls, d_ret, co_agents>>
    /\ UNCHANGED notDesignVars

\* over budget: ask the cost agent for feedback
DesignCostFeedback ==
    /\ d_pc = "cost"
    /\ \E b \in DesignBackendBehaviours, value \in AgentReturns("cost_intelligence") :
          /\ (b # "return" => value = AgentFailure("cost_intelligence"))
          /\ d_results' = SetKey(d_results, "cost_feedback",
                                 DesignInvokeAgent("cost_intelligence", b, value, value))
    /\ d_calls' = Append(d_calls, [agent |-> "cost_intelligence", scale |-> "none"])
    /\ d_pc' = "regen"
    /\ UNCHANGED <<d_impl, d_req, d_ret, co_agents>>
    /\ UNCHANGED notDesignVars

\* over budget: regenerate with the optimized requirements
DesignRegenerate ==
    /\ d_pc = "regen"
    /\ LET estimated_cost == EstimatedCost(d_results.initial_architecture)
           optimized_requirements == OptimizedRequirements(d_impl, d_req, estimated_cost)
       IN /\ \E b \in DesignBackendBehaviours :
                d_results' = SetKey(d_results, "optimized_architecture",
                                    DesignInvokeAgent("infrastructure_intelligence", b,
                                        LocalGenerateArchitecture(optimized_requirements),
                                        DeployedGenerateArchitecture(optimized_requirements)))
          /\ d_calls' = Append(d_calls, [agent |-> "infrastructure_intelligence",
                                         scale |-> optimized_requirements.scale])
    /\ d_pc' = "return"
    /\ UNCHANGED <<d_impl, d_req, d_ret, co_agents>>
    /\ UNCHANGED notDesignVars

\* final recommendations and the returned envelope
DesignReturn ==
    /\ d_pc = "return"
    /\ d_ret' = [success |-> TRUE,
                 orchestration_type |-> "smart_architecture_design",
                 requirements |-> d_req,
                 results |-> d_results,
                 final_recommendations |->
                     (IF Has(d_results, "cost_feedback")
                      THEN <<[category |-> "cost_optimization", priority |-> "high"]>>
                      ELSE <<>>)
                     \o (IF Get(d_results.initial_architecture, "security_score", 0) < 80
                         THEN <<[category |-> "security", priority |-> "high"]>>
                         ELSE <<>>)]
    /\ d_pc' = "done"
    /\ UNCHANGED <<d_impl, d_req, d_results, d_calls, co_agents>>
    /\ UNCHANGED notDesignVars

DesignNext ==
    \/ DesignSetAgentArns
    \/ DesignInitial \/ DesignBudgetCheck \/ DesignCostFeedback \/ DesignRegenerate
    \/ DesignReturn

----------------------------------------------------------------------------
\* ============== MultiAccountCostIntelligenceAgent =======================
\* agent/cost_intelligence_agent.py.  Money is in whole dollars; credits are
\* negative amounts, as Cost Explorer reports them.

\* What the billing query of one account does: _get_account_costs returns a
\* success result with the two sums, returns a failure result, or raises
AccountOutcomes ==
    [kind : {"ok"}, usage_cost : {1, 2}, credit_cost : {0, -1}]
    \cup {[kind |-> "failed"], [kind |-> "raised"]}

\* abs(x)
Abs(x) == IF x < 0 THEN -x ELSE x

\* The dict _get_account_costs returns for one account
AccountCosts(account_id, outcome) ==
    IF outcome.kind = "ok"
    THEN [account_id |-> account_id, account_name |-> account_id,
          usage_cost |-> outcome.usage_cost, credit_cost |-> outcome.credit_cost,
          net_cost |-> outcome.usage_cost + outcome.credit_cost, success |-> TRUE]
    ELSE [account_id |-> account_id, account_name |-> account_id,
          success |-> FALSE, error |-> "access_denied"]

\* The entry appended by the except clause of the loop
AccountRaised(account_id) ==
    [account_id |-> account_id, account_name |-> account_id,
     success |-> FALSE, error |-> "raised"]

\* The dict _get_organization_wide_costs returns
OrganizationWideCosts(total_usage, total_credits, n_accounts, successful_accounts, account_results) ==
    [success |-> TRUE,
     total_usage_cost |-> total_usage,
     total_credit_cost |-> total_credits,
     total_net_cost |-> total_usage + total_credits,
     accounts_checked |-> n_accounts,
     successful_accounts |-> successful_accounts,
     accounts |-> account_results,
     cost_breakdown |-> [usage_before_credits |-> total_usage,
                         credits_applied |-> Abs(total_credits),
                         final_bill |-> total_usage + total_credits]]

\* What _get_single_account_costs returns for the outcome of its one query
SingleAccountCosts(account_id, outcome) ==
    IF outcome.kind = "ok"
    THEN [success |-> TRUE,
          total_usage_cost |-> outcome.usage_cost,
          total_credit_cost |-> outcome.credit_cost,
          total_net_cost |-> outcome.usage_cost + outcome.credit_cost,
          accounts_checked |-> 1,
          successful_accounts |-> 1,
          account_id |-> account_id,
          cost_breakdown |-> [usage_before_credits |-> outcome.usage_cost,
                              credits_applied |-> Abs(outcome.credit_cost),
                              final_bill |-> outcome.usage_cost + outcome.credit_cost]]
    ELSE [success |-> FALSE, error |-> "access_denied"]

\* An exception that left get_multi_account_costs
CostRaised == [raised |-> TRUE]

\* The keys of multi_account_costs that invoke subscripts, in evaluation
\* order of the dict display
CostKeysRead ==
    <<"total_usage_cost", "total_usage_cost", "total_credit_cost", "total_net_cost",
      "aggregated_services", "account_results", "data_source",
      "accounts_checked", "successful_accounts", "successful_accounts">>

\* The first subscripted key that multi_account_costs lacks, or "" when none
RECURSIVE FirstMissingKey(_, _)
FirstMissingKey(d, keys) ==
    IF keys = <<>> THEN ""
    ELSE IF ~Has(d, Head(keys)) THEN Head(keys)
    ELSE FirstMissingKey(d, Tail(keys))

\* The envelope invoke returns for action full_analysis
CostInvokeResult(multi_account_costs, is_org, n_org_accounts) ==
    IF multi_account_costs = CostRaised
    THEN [agent |-> "cost_intelligence_multi_account", success |-> FALSE, error |-> "raised"]
    ELSE IF FirstMissingKey(multi_account_costs, CostKeysRead) # ""
    THEN [agent |-> "cost_intelligence_multi_account", success |-> FALSE,
          error |-> FirstMissingKey(multi_account_costs, CostKeysRead)]
    ELSE [agent |-> "cost_intelligence_multi_account", success |-> TRUE,
          cost_analysis |-> [current_monthly_cost |-> multi_account_costs.total_usage_cost,
                             total_usage_cost |-> multi_account_costs.total_usage_cost,
                             total_credit_cost |-> multi_account_costs.total_credit_cost,
                             total_net_cost |-> multi_account_costs.total_net_cost,
                             is_organization |-> is_org,
                             organization_accounts |-> IF is_org THEN n_org_accounts ELSE 1,
                             accounts_checked |-> multi_account_costs.accounts_checked,
                             successful_accounts |-> multi_account_costs.successful_accounts]]

\* Before the module-level "agent = MultiAccountCostIntelligenceAgent()"
CostInit ==
    /\ ca_pc = "import"
    /\ ca_is_org = FALSE
    /\ ca_org_accounts = <<>>
    /\ ca_billing = <<>>
    /\ ca_i = 1
    /\ ca_total_usage = 0
    /\ ca_total_credits = 0
    /\ ca_successful = 0
    /\ ca_account_results = <<>>
    /\ ca_ret = NoRet
    /\ ca_inv = NoRet

\* __init__ and _discover_environment: the account is the management
\* account of an organization with n active accounts, or a plain account,
\* or the identity call failed.  ca_billing fixes what each account's billing
\* query is going to do.
CostDiscoverEnvironment ==
    /\ ca_pc = "import"
    /\ \/ \E n \in 1..MaxAccounts :
            /\ ca_is_org' = TRUE
            /\ ca_org_accounts' = [i \in 1..n |-> i]
            /\ ca_billing' \in [1..n -> AccountOutcomes]
       \/ /\ ca_is_org' = FALSE
          /\ ca_org_accounts' \in {<<1>>, <<>>}
          /\ ca_billing' \in [1..1 -> AccountOutcomes]
    /\ ca_pc' = "ready"
    /\ UNCHANGED <<ca_i, ca_total_usage, ca_total_credits, ca_successful,
                   ca_account_results, ca_ret, ca_inv>>
    /\ UNCHANGED notCostVars

\* invoke, action full_analysis, up to the call of get_multi_account_costs,
\* and the branch on self.is_org_account
CostGetMultiAccountCosts ==
    /\ ca_pc = "ready"
    /\ IF ca_is_org
       THEN /\ ca_pc' = "loop"
            /\ UNCHANGED ca_ret
       ELSE /\ ca_pc' = "got"
            /\ ca_ret' = IF ca_billing[1].kind = "raised" THEN CostRaised
                         ELSE SingleAccountCosts(1, ca_billing[1])
    /\ UNCHANGED <<ca_is_org, ca_org_accounts, ca_billing, ca_i, ca_total_usage,
                   ca_total_credits, ca_successful, ca_account_results, ca_inv>>
    /\ UNCHANGED notCostVars

\* One iteration of "for account in self.org_accounts"
CostAccountStep ==
    /\ ca_pc = "loop"
    /\ ca_i <= Len(ca_org_accounts)
    /\ LET account_id == ca_org_accounts[ca_i]
           outcome == ca_billing[ca_i]
           account_costs == AccountCosts(account_id, outcome)
       IN IF outcome.kind = "raised"
          THEN /\ ca_account_results' = Append(ca_account_results, AccountRaised(account_id))
               /\ UNCHANGED <<ca_total_usage, ca_total_credits, ca_successful>>
          ELSE /\ IF account_costs.success
                  THEN /\ ca_total_usage' = ca_total_usage + account_costs.usage_cost
                       /\ ca_total_credits' = ca_total_credits + account_costs.credit_cost
                       /\ ca_successful' = ca_successful + 1
                  ELSE UNCHANGED <<ca_total_usage, ca_total_credits, ca_successful>>
               /\ ca_account_results' = Append(ca_account_results, account_costs)
    /\ ca_i' = ca_i + 1
    /\ UNCHANGED <<ca_pc, ca_is_org, ca_org_accounts, ca_billing, ca_ret, ca_inv>>
    /\ UNCHANGED notCostVars

\* The return statement of _get_organization_wide_costs
CostOrganizationReturn ==
    /\ ca_pc = "loop"
    /\ ca_i > Len(ca_org_accounts)
    /\ ca_ret' = OrganizationWideCosts(ca_total_usage, ca_total_credits,
                                       Len(ca_org_accounts), ca_successful, ca_account_results)
    /\ ca_pc' = "got"
    /\ UNCHANGED <<ca_is_org, ca_org_accounts, ca_billing, ca_i, ca_total_usage,
                   ca_total_credits, ca_successful, ca_account_results, ca_inv>>
    /\ UNCHANGED notCostVars

\* The rest of invoke: the result dict is built from multi_account_costs and
\* any exception becomes the failure envelope of the except clause
CostInvokeReturn ==
    /\ ca_pc = "got"
    /\ ca_inv' = CostInvokeResult(ca_ret, ca_is_org, Len(ca_org_accounts))
    /\ ca_pc' = "done"
    /\ UNCHANGED <<ca_is_org, ca_org_accounts, ca_billing, ca_i, ca_total_usage,
                   ca_total_credits, ca_successful, ca_account_results, ca_ret>>
    /\ UNCHANGED notCostVars

CostNext ==
    \/ CostDiscoverEnvironment
    \/ CostGetMultiAccountCosts
    \/ CostAccountStep
    \/ CostOrganizationReturn
    \/ CostInvokeReturn

----------------------------------------------------------------------------
\* ============== _scan_current_account_resources =========================
\* agent/operations_intelligence_agent.py.  Time is in whole seconds from the
\* moment the four scans are submitted.

\* The values of the dict "futures", in submission order
ResourceTypes == <<"EC2", "RDS", "S3", "VPC">>
ResourceTypeSet == {ResourceTypes[i] : i \in DOMAIN ResourceTypes}

\* future.result(timeout=15)
ScanTimeout == 15

\* What one scan function does: it returns (resource_data, count) after
\* some seconds (count 0 is an empty account or an exception caught inside
\* the scan function), or the provider call never returns
ScanBehaviours ==
    [kind : {"returns"}, duration : {5, 20}, count : {0, 1}]
    \cup {[kind |-> "never"]}

\* future.result(timeout): the result of a finished future at once; for an
\* unfinished one the wait ends with TimeoutError after timeout seconds
FutureResult(state, behaviour) ==
    IF state = "finished"
    THEN [raised |-> FALSE, resource_data |-> behaviour.count, count |-> behaviour.count]
    ELSE [raised |-> TRUE, resource_data |-> 0, count |-> 0]

ScanInit ==
    /\ rs_pc = "start"
    /\ rs_scan = [t \in ResourceTypeSet |-> [kind |-> "never"]]
    /\ rs_state = [t \in ResourceTypeSet |-> "unsubmitted"]
    /\ rs_order = <<>>
    /\ rs_collected = 0
    /\ rs_resources = {}
    /\ rs_resource_types = EmptyDict
    /\ rs_now = 0

\* The four executor.submit calls: the pool has four workers, so every scan
\* starts at once.  rs_scan fixes what each scan is going to do.
ScanSubmit ==
    /\ rs_pc = "start"
    /\ rs_scan' \in [ResourceTypeSet -> ScanBehaviours]
    /\ rs_state' = [t \in ResourceTypeSet |-> "running"]
    /\ rs_pc' = "collect"
    /\ UNCHANGED <<rs_order, rs_collected, rs_resources, rs_resource_types, rs_now>>
    /\ UNCHANGED notScanVars

\* A worker thread: the scan function of type t returns, no earlier than
\* any running scan that takes less time
ScanFinish(t) ==
    /\ rs_state[t] = "running"
    /\ rs_scan[t].kind = "returns"
    /\ \A u \in ResourceTypeSet :
          (rs_state[u] = "running" /\ rs_scan[u].kind = "returns")
              => rs_scan[t].duration <= rs_scan[u].duration
    /\ rs_state' = [rs_state EXCEPT ![t] = "finished"]
    /\ rs_order' = Append(rs_order, t)
    /\ rs_now' = IF rs_scan[t].duration > rs_now THEN rs_scan[t].duration ELSE rs_now
    /\ UNCHANGED <<rs_pc, rs_scan, rs_collected, rs_resources, rs_resource_types>>
    /\ UNCHANGED notScanVars

\* One iteration of "for future in as_completed(futures)": as_completed
\* (called without a timeout) hands over the next finished future, and blocks
\* while none is finished
ScanCollect ==
    /\ rs_pc = "collect"
    /\ rs_collected < Len(rs_order)
    /\ LET resource_type == rs_order[rs_collected + 1]
           r == FutureResult(rs_state[resource_type], rs_scan[resource_type])
       IN IF r.raised
          THEN UNCHANGED <<rs_resources, rs_resource_types>>
          ELSE /\ rs_resources' = rs_resources
                                  \cup (IF r.resource_data > 0 THEN {resource_type} ELSE {})
               /\ rs_resource_types' = IF r.count > 0
                                       THEN SetKey(rs_resource_types, resource_type, r.count)
                                       ELSE rs_resource_types
    /\ rs_collected' = rs_collected + 1
    /\ UNCHANGED <<rs_pc, rs_scan, rs_state, rs_order, rs_now>>
    /\ UNCHANGED notScanVars

\* as_completed is exhausted once every future was handed over; leaving the
\* with block waits for the workers (all finished by then); return
ScanReturn ==
    /\ rs_pc = "collect"
    /\ rs_collected = Len(ResourceTypes)
    /\ rs_pc' = "returned"
    /\ UNCHANGED <<rs_scan, rs_state, rs_order, rs_collected, rs_resources,
                   rs_resource_types, rs_now>>
    /\ UNCHANGED notScanVars

ScanNext ==
    \/ ScanSubmit
    \/ \E t \in ResourceTypeSet : ScanFinish(t)
    \/ ScanCollect
    \/ ScanReturn

----------------------------------------------------------------------------
\* ============== security-group findings =================================
\* OrganizationsOperationsIntelligenceAgent._analyze_current_account_security
\* (agent/operations_intelligence_agent.py) and the security-group part of
\* InfrastructureIntelligenceAgent.assess_existing_infrastructure
\* (agents/infrastructure_intelligence/agent.py)

SecurityImplementations == {"operations_agent", "infrastructure_agent"}

\* A rule without FromPort (all traffic): rule.get('FromPort', 'all')
NoFromPort == -1

\* FromPort of the rules describe_security_groups returns
SecurityGroupPorts == {22, 3389, 3306, 5432, 443, 8080, NoFromPort}

\* One ingress rule with one IP range, of the security group it belongs to
SecurityGroupRules == [GroupId : {"sg-1", "sg-2"}, FromPort : SecurityGroupPorts, CidrIp : Cidrs]

\* [22, 3389, 3306, 5432]
SensitivePorts == {22, 3389, 3306, 5432}

\* 'high' if from_port in [22, 3389, 3306, 5432] else 'medium'
CurrentAccountSeverity(from_port) ==
    IF from_port \in SensitivePorts THEN "high" ELSE "medium"

\* The finding either implementation appends for an open rule
SecurityIssue(impl, rule) ==
    [security_group_id |-> rule.GroupId,
     port |-> rule.FromPort,
     severity |-> IF impl = "operations_agent"
                  THEN CurrentAccountSeverity(rule.FromPort)
                  ELSE AssessSeverity(rule),
     recommendation |-> "Restrict source IP ranges"]

SecurityInit ==
    /\ sg_pc = "start"
    /\ sg_impl = "operations_agent"
    /\ sg_rules = <<>>
    /\ sg_i = 1
    /\ sg_issues = <<>>

\* self.ec2.describe_security_groups(): the rules of the account, or an
\* exception, which ends the assessment without findings
SecurityDescribe ==
    /\ sg_pc = "start"
    /\ sg_impl' \in SecurityImplementations
    /\ \/ /\ \E n \in 0..MaxItems : sg_rules' \in [1..n -> SecurityGroupRules]
          /\ sg_pc' = "rules"
       \/ /\ sg_rules' = <<>>
          /\ sg_pc' = "failed"
    /\ UNCHANGED <<sg_i, sg_issues>>
    /\ UNCHANGED notSecurityVars

\* One ingress rule: a finding when its range is 0.0.0.0/0
SecurityRuleStep ==
    /\ sg_pc = "rules"
    /\ sg_i <= Len(sg_rules)
    /\ sg_issues' = IF sg_rules[sg_i].CidrIp = "0.0.0.0/0"
                    THEN Append(sg_issues, SecurityIssue(sg_impl, sg_rules[sg_i]))
                    ELSE sg_issues
    /\ sg_i' = sg_i + 1
    /\ UNCHANGED <<sg_pc, sg_impl, sg_rules>>
    /\ UNCHANGED notSecurityVars

\* return security_issues / return assessment
SecurityReturn ==
    /\ sg_pc = "rules"
    /\ sg_i > Len(sg_rules)
    /\ sg_pc' = "returned"
    /\ UNCHANGED <<sg_impl, sg_rules, sg_i, sg_issues>>
    /\ UNCHANGED notSecurityVars

SecurityNext ==
    \/ SecurityDescribe
    \/ SecurityRuleStep
    \/ SecurityReturn

----------------------------------------------------------------------------
\* ============== invoke_agent called directly ============================
\* LocalAgentOrchestrator.invoke_agent (orchestrator.py) and
\* AgentCoordinator.invoke_agent (backend/orchestrator/coordinator.py), for
\* any agent name

\* An agent name that is in no self.agents dict
UnknownAgent == "unknown_agent"

InvokeAgentInit ==
    /\ ia_calls = 0
    /\ ia_last = NoRet

\* One call of LocalAgentOrchestrator.invoke_agent, in the mode use_gateway
LocalInvokeAgentCall ==
    /\ ia_calls < MaxAgentCalls
    /\ \E agent_name \in AgentNameSet \cup {UnknownAgent} :
       \E b \in AgentBehaviours(IF agent_name = UnknownAgent THEN "cost_intelligence"
                                ELSE agent_name, use_gateway) :
          ia_last' = [impl |-> "orchestrator",
                      agent_name |-> agent_name,
                      backend_invoked |-> agent_name \in AgentNameSet,
                      value |-> invoke_agent(use_gateway, agent_name, b).value]
    /\ ia_calls' = ia_calls + 1
    /\ UNCHANGED notInvokeVars

\* One call of AgentCoordinator.invoke_agent; the agents' ARNs are all set
\* or all still None
CoordInvokeAgentCall ==
    /\ ia_calls < MaxAgentCalls
    /\ \E agent_name \in AgentNameSet \cup {UnknownAgent}, configured \in BOOLEAN :
       \E b \in RuntimeBehaviours(AgentReturns(IF agent_name = UnknownAgent
                                               THEN "cost_intelligence" ELSE agent_name)) :
          ia_last' = [impl |-> "coordinator",
                      agent_name |-> agent_name,
                      backend_invoked |-> agent_name \in AgentNameSet /\ configured,
                      value |-> CoordInvokeAgent([n \in AgentNameSet |-> configured],
                                                 agent_name, b)]
    /\ ia_calls' = ia_calls + 1
    /\ UNCHANGED notInvokeVars

InvokeAgentNext ==
    \/ LocalInvokeAgentCall
    \/ CoordInvokeAgentCall

----------------------------------------------------------------------------
\* ============== the global settings object (config/settings.py) =========
\* The three validated fields whose environment variables are drawn here;
\* the other fields keep their defaults, which validate

\* An environment variable: unset, or set to a text
EnvUnset == [set |-> FALSE, text |-> ""]
EnvTexts(texts) == {EnvUnset} \cup [set : {TRUE}, text : texts]

\* os.getenv(name, default)
GetEnv(var, default) == IF var.set THEN var.text ELSE default

\* int(text): the number, or ValueError for a text that is no integer literal
IntLiterals == {"-1", "0", "1", "3", "300", "60"}
ParseInt(text) ==
    CASE text = "-1" -> -1
      [] text = "0" -> 0
      [] text = "1" -> 1
      [] text = "3" -> 3
      [] text = "60" -> 60
      [] text = "300" -> 300

\* str.upper()
Upper(text) ==
    CASE text = "debug" -> "DEBUG"
      [] text = "verbose" -> "VERBOSE"
      [] OTHER -> text

\* The environments the process can be started in
SettingsEnvironments ==
    [MAX_RETRIES : EnvTexts({"0", "-1", "1", "abc"}),
     CACHE_TTL : EnvTexts({"-1", "0", "60"}),
     LOG_LEVEL : EnvTexts({"debug", "ERROR", "verbose"})]

\* Settings(): the default factories run against the environment; a text
\* that int() rejects raises ValueError out of the constructor
SettingsRaises(env) ==
    \/ GetEnv(env.MAX_RETRIES, "3") \notin IntLiterals
    \/ GetEnv(env.CACHE_TTL, "300") \notin IntLiterals

NewSettings(env) ==
    [max_retries |-> ParseInt(GetEnv(env.MAX_RETRIES, "3")),
     cache_ttl |-> ParseInt(GetEnv(env.CACHE_TTL, "300")),
     log_level |-> GetEnv(env.LOG_LEVEL, "INFO")]

\* Settings.validate: the list "errors" (as a set)
ValidationErrors(s) ==
    (IF s.max_retries < 1 THEN {"MAX_RETRIES must be >= 1"} ELSE {})
    \cup (IF s.cache_ttl < 0 THEN {"CACHE_TTL must be >= 0"} ELSE {})
    \cup (IF Upper(s.log_level) \notin {"DEBUG", "INFO", "WARNING", "ERROR", "CRITICAL"}
          THEN {"LOG_LEVEL must be one of valid_log_levels"} ELSE {})

\* Before the module is imported
SettingsInit ==
    /\ st_pc = "import"
    /\ st_env = [MAX_RETRIES |-> EnvUnset, CACHE_TTL |-> EnvUnset, LOG_LEVEL |-> EnvUnset]
    /\ st_settings = NoRet

\* try: settings = Settings()
SettingsConstruct ==
    /\ st_pc = "import"
    /\ \E env \in SettingsEnvironments :
          /\ st_env' = env
          /\ IF SettingsRaises(env)
             THEN st_pc' = "except" /\ UNCHANGED st_settings
             ELSE st_pc' = "validate" /\ st_settings' = NewSettings(env)
    /\ UNCHANGED notSettingsVars

\* settings.validate()
SettingsValidate ==
    /\ st_pc = "validate"
    /\ st_pc' = IF ValidationErrors(st_settings) # {} THEN "except" ELSE "ready"
    /\ UNCHANGED <<st_env, st_settings>>
    /\ UNCHANGED notSettingsVars

\* except Exception: settings = Settings(), in the same environment; an
\* exception of this second constructor call leaves the module (import fails)
SettingsFallback ==
    /\ st_pc = "except"
    /\ IF SettingsRaises(st_env)
       THEN st_pc' = "aborted" /\ UNCHANGED st_settings
       ELSE st_pc' = "ready" /\ st_settings' = NewSettings(st_env)
    /\ UNCHANGED st_env
    /\ UNCHANGED notSettingsVars

SettingsNext ==
    \/ SettingsConstruct
    \/ SettingsValidate
    \/ SettingsFallback

----------------------------------------------------------------------------
\* ============== _scan_organization_accounts =============================
\* agent/operations_intelligence_agent.py

\* What the scan of one member account finds: its resources (possibly
\* none), or the role cannot be assumed and the scan fails
AccountScanOutcomes ==
    [kind : {"scanned"}, count : 0..2] \cup {[kind |-> "failed", count |-> 0]}

\* _scan_account_resources: the dict of the account's resources (its keys),
\* and {} when anything raised
ScanAccountResources(account_id, outcome) ==
    IF outcome.kind = "failed" THEN {}
    ELSE {<<account_id, k>> : k \in 1..outcome.count}

OrgScanInit ==
    /\ os_pc = "start"
    /\ os_accounts = <<>>
    /\ os_i = 1
    /\ os_all_resources = {}
    /\ os_successful = 0
    /\ os_ret = NoRet

\* Entry of _scan_organization_accounts: self.org_accounts holds the active
\* member accounts; os_accounts fixes what the scan of each is going to find
OrgScanStart ==
    /\ os_pc = "start"
    /\ \E n \in 0..MaxAccounts : os_accounts' \in [1..n -> AccountScanOutcomes]
    /\ os_pc' = "loop"
    /\ UNCHANGED <<os_i, os_all_resources, os_successful, os_ret>>
    /\ UNCHANGED notOrgScanVars

\* One iteration of "for account in self.org_accounts"
OrgScanAccountStep ==
    /\ os_pc = "loop"
    /\ os_i <= Len(os_accounts)
    /\ LET account_resources == ScanAccountResources(os_i, os_accounts[os_i])
       IN IF account_resources # {}
          THEN /\ os_all_resources' = os_all_resources \cup account_resources
               /\ os_successful' = os_successful + 1
          ELSE UNCHANGED <<os_all_resources, os_successful>>
    /\ os_i' = os_i + 1
    /\ UNCHANGED <<os_pc, os_accounts, os_ret>>
    /\ UNCHANGED notOrgScanVars

\* The return statement
OrgScanReturn ==
    /\ os_pc = "loop"
    /\ os_i > Len(os_accounts)
    /\ os_ret' = [resources |-> os_all_resources,
                  total_resources |-> Cardinality(os_all_resources),
                  organization_context |->
                      [is_organization |-> TRUE,
                       total_accounts |-> Len(os_accounts),
                       scanned_accounts |-> os_successful]]
    /\ os_pc' = "returned"
    /\ UNCHANGED <<os_accounts, os_i, os_all_resources, os_successful>>
    /\ UNCHANGED notOrgScanVars

OrgScanNext ==
    \/ OrgScanStart
    \/ OrgScanAccountStep
    \/ OrgScanReturn

----------------------------------------------------------------------------
\* ============== AutonomousInterviewFlow =================================
\* working_agent/session_manager.py.  One session of the flow; a role is
\* represented by whether "engineer" occurs in role.lower(), a response by
\* its number of words.

\* The role argument of start_interview
InterviewRoles == {"engineer", "analyst"}

\* The analysis argument of process_analysis: with or without skill_gaps
InterviewAnalyses ==
    {EmptyDict} \cup
    {[skill_gaps |-> g] : g \in {<<>>, <<"kubernetes">>, <<"kubernetes", "terraform">>,
                                 <<"kubernetes", "terraform", "golang">>}}

\* len(response.split()) of the response argument of process_response
ResponseLengths == {5, 50, 150}

\* skill_gaps[:2]
FirstTwo(seq) == SubSeq(seq, 1, IF Len(seq) < 2 THEN Len(seq) ELSE 2)

\* _generate_adaptive_questions: two behavioral questions, one technical
\* question for each of the first two skill gaps, one more for an engineer
GenerateAdaptiveQuestions(role, analysis) ==
    LET skill_gaps == FirstTwo(Get(analysis, "skill_gaps", <<>>)) IN
    << [question |-> "experience", type |-> "behavioral", difficulty |-> "easy"],
       [question |-> "challenging_project", type |-> "behavioral", difficulty |-> "medium"] >>
    \o [i \in 1..Len(skill_gaps) |->
           [question |-> skill_gaps[i], type |-> "technical", difficulty |-> "medium"]]
    \o (IF role = "engineer"
        THEN <<[question |-> "problem_solving", type |-> "technical", difficulty |-> "hard"]>>
        ELSE <<>>)

\* _determine_next_action: a response under 10 words asks for a follow-up,
\* every other branch returns "next_question"
DetermineNextAction(current_question_index, response_length) ==
    IF response_length < 10 THEN "follow_up"
    ELSE IF response_length > 100 THEN "next_question"
    ELSE IF current_question_index < 2 THEN "next_question"
    ELSE "next_question"

\* _generate_follow_up: follow_ups[len(session.responses) % len(follow_ups)]
GenerateFollowUp(responses) == Len(responses) % 4

RECURSIVE TotalResponseLength(_)
TotalResponseLength(responses) ==
    IF responses = <<>> THEN 0
    ELSE Head(responses).response + TotalResponseLength(Tail(responses))

\* _adjust_question_difficulty: one harder question when the average
\* response is over 50 words, one easier question otherwise
AdjustQuestionDifficulty(responses) ==
    IF TotalResponseLength(responses) > 50 * Len(responses)
    THEN <<[question |-> "difficult_decision", type |-> "behavioral", difficulty |-> "hard"]>>
    ELSE <<[question |-> "interest_in_role", type |-> "behavioral", difficulty |-> "easy"]>>

\* self.sessions = {}
InterviewInit ==
    /\ iv_state = "absent"
    /\ iv_role = ""
    /\ iv_index = 0
    /\ iv_questions = <<>>
    /\ iv_responses = <<>>
    /\ iv_analysis = EmptyDict
    /\ iv_ret = NoRet

\* start_interview: a new InterviewSession, stored in state "analyzing"
StartInterview ==
    /\ iv_state = "absent"
    /\ \E role \in InterviewRoles : iv_role' = role
    /\ iv_state' = "analyzing"
    /\ iv_index' = 0
    /\ iv_questions' = <<>>
    /\ iv_responses' = <<>>
    /\ iv_analysis' = EmptyDict
    /\ iv_ret' = [state |-> "analyzing", next_action |-> "analyze_candidate"]
    /\ UNCHANGED notInterviewVars

\* process_analysis of a session id that is not in self.sessions
ProcessAnalysisNotFound ==
    /\ iv_state = "absent"
    /\ iv_ret' = [error |-> "Session not found"]
    /\ UNCHANGED <<iv_state, iv_role, iv_index, iv_questions, iv_responses, iv_analysis>>
    /\ UNCHANGED notInterviewVars

\* process_analysis: stores the analysis, moves to "questioning" and
\* replaces the questions; current_question_index is left as it is
ProcessAnalysis ==
    /\ iv_state # "absent"
    /\ \E analysis \in InterviewAnalyses :
          LET questions == GenerateAdaptiveQuestions(iv_role, analysis) IN
          /\ iv_analysis' = analysis
          /\ iv_questions' = questions
          /\ iv_ret' = [state |-> "questioning",
                        current_question |-> IF questions # <<>> THEN questions[1] ELSE None,
                        question_number |-> 1,
                        total_questions |-> Len(questions)]
    /\ iv_state' = "questioning"
    /\ UNCHANGED <<iv_role, iv_index, iv_responses>>
    /\ UNCHANGED notInterviewVars

\* process_response of a session id that is not in self.sessions
ProcessResponseNotFound ==
    /\ iv_state = "absent"
    /\ iv_ret' = [error |-> "Session not found"]
    /\ UNCHANGED <<iv_state, iv_role, iv_index, iv_questions, iv_responses, iv_analysis>>
    /\ UNCHANGED notInterviewVars

\* process_response when session.questions[session.current_question_index]
\* is out of range: IndexError leaves the method before anything is stored
ProcessResponseRaises ==
    /\ iv_state # "absent"
    /\ iv_index >= Len(iv_questions)
    /\ iv_ret' = [raised |-> "IndexError"]
    /\ UNCHANGED <<iv_state, iv_role, iv_index, iv_questions, iv_responses, iv_analysis>>
    /\ UNCHANGED notInterviewVars

\* process_response: stores the response, then moves on, asks a follow-up
\* or extends the questions
ProcessResponse ==
    /\ iv_state # "absent"
    /\ iv_index < Len(iv_questions)
    /\ Len(iv_responses) < MaxResponses
    /\ \E response \in ResponseLengths :
          LET current_question == iv_questions[iv_index + 1]
              responses == Append(iv_responses,
                                  [question |-> current_question.question,
                                   response |-> response,
                                   question_type |-> Get(current_question, "type", "general")])
              next_action == DetermineNextAction(iv_index, response)
          IN /\ iv_responses' = responses
             /\ CASE next_action = "next_question" ->
                       /\ iv_index' = iv_index + 1
                       /\ iv_questions' = iv_questions
                       /\ IF iv_index + 1 >= Len(iv_questions)
                          THEN /\ iv_state' = "completed"
                               /\ iv_ret' = [state |-> "completed",
                                             next_action |-> "generate_feedback"]
                          ELSE /\ iv_state' = iv_state
                               /\ iv_ret' = [state |-> "questioning",
                                             current_question |-> iv_questions[iv_index + 2],
                                             question_number |-> iv_index + 2,
                                             total_questions |-> Len(iv_questions),
                                             next_action |-> "continue"]
                  [] next_action = "follow_up" ->
                       /\ iv_ret' = [state |-> "questioning",
                                     current_question |->
                                         [question |-> GenerateFollowUp(responses),
                                          type |-> "follow_up"],
                                     question_number |-> iv_index + 1,
                                     total_questions |-> Len(iv_questions),
                                     next_action |-> "continue"]
                       /\ UNCHANGED <<iv_state, iv_index, iv_questions>>
                  [] next_action = "adjust_difficulty" ->
                       /\ iv_questions' = iv_questions \o AdjustQuestionDifficulty(responses)
                       /\ iv_ret' = [state |-> "questioning", next_action |-> "continue"]
                       /\ UNCHANGED <<iv_state, iv_index>>
    /\ UNCHANGED <<iv_role, iv_analysis>>
    /\ UNCHANGED notInterviewVars

InterviewNext ==
    \/ StartInterview
    \/ ProcessAnalysisNotFound
    \/ ProcessAnalysis
    \/ ProcessResponseNotFound
    \/ ProcessResponseRaises
    \/ ProcessResponse

----------------------------------------------------------------------------
\* ======================= specifications =================================

\* The state after construction; each specification below runs one component
\* and draws that component's arguments
Init ==
    /\ RetryInit /\ OrchInit /\ CoordInit /\ AgentInit
    /\ CacheInit /\ ThreadInit
    /\ DesignInit
    /\ CostInit /\ ScanInit /\ SecurityInit
    /\ InvokeAgentInit /\ SettingsInit /\ OrgScanInit
    /\ InterviewInit

\* safe_aws_call, for every max_retries in 0..MaxRetriesBound
RetrySpecInit ==
    /\ Init
    /\ max_retries \in 0..MaxRetriesBound
    /\ use_gateway = FALSE
    /\ c_default_ttl = 300
    /\ c_ttl = [given |-> FALSE, value |-> 0]
    /\ d_impl = "orchestrator"
    /\ d_req = EmptyDict

RetrySpec == RetrySpecInit /\ [][RetryNext]_vars

\* safe_aws_call, for every max_retries in -1..MaxRetriesBound (range() of a
\* negative number is empty as well)
RetryAnySpecInit ==
    /\ Init
    /\ max_retries \in -1..MaxRetriesBound
    /\ use_gateway = FALSE
    /\ c_default_ttl = 300
    /\ c_ttl = [given |-> FALSE, value |-> 0]
    /\ d_impl = "orchestrator"
    /\ d_req = EmptyDict

RetryAnySpec == RetryAnySpecInit /\ [][RetryNext]_vars

\* LocalAgentOrchestrator.orchestrate_full_analysis, in gateway and local mode
OrchSpecInit ==
    /\ Init
    /\ use_gateway \in BOOLEAN
    /\ max_retries = 3
    /\ c_default_ttl = 300
    /\ c_ttl = [given |-> FALSE, value |-> 0]
    /\ d_impl = "orchestrator"
    /\ d_req = EmptyDict

OrchSpec == OrchSpecInit /\ [][OrchNext]_vars

\* One orchestration of the AgentCoordinator
CoordSpecInit ==
    /\ Init
    /\ use_gateway = FALSE
    /\ max_retries = 3
    /\ c_default_ttl = 300
    /\ c_ttl = [given |-> FALSE, value |-> 0]
    /\ d_impl = "orchestrator"
    /\ d_req = EmptyDict

CoordSpec == CoordSpecInit /\ [][CoordNext]_vars

\* The deployed agents' entry points
AgentSpecInit ==
    /\ Init
    /\ use_gateway = FALSE
    /\ max_retries = 3
    /\ c_default_ttl = 300
    /\ c_ttl = [given |-> FALSE, value |-> 0]
    /\ d_impl = "orchestrator"
    /\ d_req = EmptyDict

AgentSpec == AgentSpecInit /\ [][AgentNext]_vars

\* Either orchestrator, one run: the LocalAgentOrchestrator runs only while
\* the AgentCoordinator is untouched, and the other way round
CoordUntouched == co_pc = "idle" /\ co_agents = [n \in AgentNameSet |-> FALSE]
OrchUntouched == pc = "cost"

BothNext ==
    \/ CoordUntouched /\ OrchNext
    \/ OrchUntouched /\ CoordNext

BothSpec == OrchSpecInit /\ [][BothNext]_vars

\* SimpleCache used directly, for every default_ttl in 0..MaxTtl
CacheSpecInit ==
    /\ Init
    /\ c_default_ttl \in 0..MaxTtl
    /\ c_ttl = [given |-> FALSE, value |-> 0]
    /\ d_impl = "orchestrator"
    /\ d_req = EmptyDict
    /\ use_gateway = FALSE
    /\ max_retries = 3

CacheSpec == CacheSpecInit /\ [][CacheNext]_vars

\* A function decorated with @cached(ttl), for every ttl argument and every
\* default_ttl, sharing the process-wide cache
MemoSpecInit ==
    /\ Init
    /\ c_default_ttl \in 0..MaxTtl
    /\ c_ttl \in TtlArgs
    /\ d_impl = "orchestrator"
    /\ d_req = EmptyDict
    /\ use_gateway = FALSE
    /\ max_retries = 3

MemoSpec == MemoSpecInit /\ [][MemoNext]_vars

\* Two threads calling the methods of one SimpleCache
ThreadSpecInit ==
    /\ Init
    /\ c_default_ttl \in 1..MaxTtl
    /\ c_ttl = [given |-> FALSE, value |-> 0]
    /\ d_impl = "orchestrator"
    /\ d_req = EmptyDict
    /\ use_gateway = FALSE
    /\ max_retries = 3

ThreadSpec == ThreadSpecInit /\ [][ThreadNext]_vars

\* One smart architecture design run of either coordinator, for every
\* requested scale and budget
DesignSpecInit ==
    /\ Init
    /\ d_impl \in {"orchestrator", "coordinator"}
    /\ d_req \in DesignRequirements
    /\ use_gateway \in (IF d_impl = "orchestrator" THEN BOOLEAN ELSE {FALSE})
    /\ max_retries = 3
    /\ c_default_ttl = 300
    /\ c_ttl = [given |-> FALSE, value |-> 0]

DesignSpec == DesignSpecInit /\ [][DesignNext]_vars

\* The local cost agent: construction, then one invoke with action
\* full_analysis, for every environment and every billing outcome
CostSpecInit ==
    /\ Init
    /\ max_retries = 3
    /\ use_gateway = FALSE
    /\ c_default_ttl = 300
    /\ c_ttl = [given |-> FALSE, value |-> 0]
    /\ d_impl = "orchestrator"
    /\ d_req = EmptyDict

CostSpec == CostSpecInit /\ [][CostNext]_vars

\* One call of _scan_current_account_resources, for every behaviour of the
\* four scans.  The calling thread and the pool's workers are threads the
\* interpreter keeps scheduling, so a step that stays possible is taken.
ScanSpecInit ==
    /\ Init
    /\ max_retries = 3
    /\ use_gateway = FALSE
    /\ c_default_ttl = 300
    /\ c_ttl = [given |-> FALSE, value |-> 0]
    /\ d_impl = "orchestrator"
    /\ d_req = EmptyDict

ScanSpec == ScanSpecInit /\ [][ScanNext]_vars /\ WF_vars(ScanNext)

\* One security-group assessment by either implementation, for every list
\* of ingress rules
SecuritySpecInit ==
    /\ Init
    /\ max_retries = 3
    /\ use_gateway = FALSE
    /\ c_default_ttl = 300
    /\ c_ttl = [given |-> FALSE, value |-> 0]
    /\ d_impl = "orchestrator"
    /\ d_req = EmptyDict

SecuritySpec == SecuritySpecInit /\ [][SecurityNext]_vars

\* The externally exposed operations of the LocalAgentOrchestrator, one kind
\* per run: direct invoke_agent calls (also the AgentCoordinator's), one
\* full analysis, or one smart architecture design
InvokeUntouched == ia_calls = 0
DesignUntouched == d_pc = "start" /\ co_agents = [n \in AgentNameSet |-> FALSE]

EnvelopeSpecInit ==
    /\ Init
    /\ use_gateway \in BOOLEAN
    /\ d_impl = "orchestrator"
    /\ d_req \in {r \in DesignRequirements : r.type = "web_app_3tier" /\ r.scale = "large"}
    /\ max_retries = 3
    /\ c_default_ttl = 300
    /\ c_ttl = [given |-> FALSE, value |-> 0]

EnvelopeNext ==
    \/ OrchUntouched /\ DesignUntouched /\ InvokeAgentNext
    \/ InvokeUntouched /\ DesignUntouched /\ OrchNext
    \/ InvokeUntouched /\ OrchUntouched /\ DesignNext

EnvelopeSpec == EnvelopeSpecInit /\ [][EnvelopeNext]_vars

\* Import of config/settings.py, in every environment
SettingsSpecInit ==
    /\ Init
    /\ max_retries = 3
    /\ use_gateway = FALSE
    /\ c_default_ttl = 300
    /\ c_ttl = [given |-> FALSE, value |-> 0]
    /\ d_impl = "orchestrator"
    /\ d_req = EmptyDict

SettingsSpec == SettingsSpecInit /\ [][SettingsNext]_vars

\* One organization-wide inventory scan, for every list of member accounts
OrgScanSpecInit ==
    /\ Init
    /\ max_retries = 3
    /\ use_gateway = FALSE
    /\ c_default_ttl = 300
    /\ c_ttl = [given |-> FALSE, value |-> 0]
    /\ d_impl = "orchestrator"
    /\ d_req = EmptyDict

OrgScanSpec == OrgScanSpecInit /\ [][OrgScanNext]_vars

\* One interview session, for every role, analysis and response length
InterviewSpecInit ==
    /\ Init
    /\ max_retries = 3
    /\ use_gateway = FALSE
    /\ c_default_ttl = 300
    /\ c_ttl = [given |-> FALSE, value |-> 0]
    /\ d_impl = "orchestrator"
    /\ d_req = EmptyDict

InterviewSpec == InterviewSpecInit /\ [][InterviewNext]_vars

----------------------------------------------------------------------------
\* ======================= properties =====================================

\* An agent result that carries success=true
ReportsSuccess(r) == "success" \in DOMAIN r /\ r.success = TRUE

\* C1: orchestrate_full_analysis returns success=true if and only if at
\* least one of the three agents' results has success=true (one success out
\* of three gives true, three failures give false).
C1_SuccessIffAnyAgentSucceeded ==
    pc = "done" =>
        /\ DOMAIN ret.results = {"cost_analysis", "operations_analysis",
                                 "infrastructure_assessment"}
        /\ ret.success = (\E k \in DOMAIN ret.results : ReportsSuccess(ret.results[k]))

\* C1 witness: a finished run in which exactly one agent succeeded and the
\* orchestration reports success
C1_Witness ==
    /\ pc = "done"
    /\ Cardinality({k \in DOMAIN ret.results : ReportsSuccess(ret.results[k])}) = 1
    /\ ret.success = TRUE

\* The fixed invocation order: cost, then inventory (operations), then
\* architecture (infrastructure)
InvocationOrder ==
    <<"cost_intelligence", "operations_intelligence", "infrastructure_intelligence">>

\* C2: in every run the cost, operations and infrastructure agents are each
\* invoked exactly once, in that order, whatever the earlier agents did; merge
\* and score then run and the run ends by returning a result envelope, never
\* the error envelope of the orchestration itself.
C2_FixedOrderNoErrorTerminal ==
    /\ pc = "cost" => invoked = <<>>
    /\ pc = "ops" => invoked = SubSeq(InvocationOrder, 1, 1)
    /\ pc = "infra" => invoked = SubSeq(InvocationOrder, 1, 2)
    /\ pc \in {"merge", "score", "return", "done"} => invoked = InvocationOrder
    /\ pc \in {"cost", "ops", "infra", "merge", "score", "return", "done"}
    /\ pc \in {"return", "done"} => "overall" \in DOMAIN scores
    /\ pc = "done" =>
          /\ "results" \in DOMAIN ret
          /\ ret.orchestration_type = "full_aws_operations_analysis"
          /\ ret.coordinated_recommendations = coordinated
          /\ ret.overall_scores = scores

\* C2 witness: a finished run in which the first two agents did not succeed
\* and the third was still invoked and the result returned
C2_Witness ==
    /\ pc = "done"
    /\ ~ReportsSuccess(ret.results.cost_analysis)
    /\ ~ReportsSuccess(ret.results.operations_analysis)
    /\ invoked = InvocationOrder
    /\ "results" \in DOMAIN ret

Categories == {"cost_efficiency", "operational_health", "security", "reliability"}

\* A scorecard that is complete, keeps the category of every failed agent at
\* the baseline, and is 70 throughout when all three agents failed
BaselineKept(sc, costFailed, opsFailed, infraFailed) ==
    /\ DOMAIN sc = Categories \cup {"overall"}
    /\ costFailed => sc.cost_efficiency = 70
    /\ opsFailed => sc.operational_health = 70
    /\ infraFailed => sc.security = 70
    /\ (costFailed /\ opsFailed /\ infraFailed) =>
          /\ \A c \in Categories : sc[c] = 70
          /\ sc.overall = 70

\* C3: for any subset of failed or missing agent results, overall_scores has
\* all four categories plus overall, the category of every failed or missing
\* agent is the baseline 70, and with all three agents failing every category
\* is 70 and overall is exactly 70 (both coordinators).
C3_BaselineUnderFailure ==
    /\ pc = "done" =>
          BaselineKept(ret.overall_scores,
                       ~ReportsSuccess(ret.results.cost_analysis),
                       ~ReportsSuccess(ret.results.operations_analysis),
                       ~ReportsSuccess(ret.results.infrastructure_assessment))
    /\ (co_pc = "done" /\ "overall_score" \in DOMAIN co_ret) =>
          BaselineKept(co_ret.overall_score,
                       ~ReportsSuccess(co_ret.results.costs),
                       ~ReportsSuccess(co_ret.results.operations),
                       ~ReportsSuccess(co_ret.results.infrastructure))

\* C4: in every scorecard of either coordinator, overall equals
\* (cost_efficiency + operational_health + security + reliability) div 4.
C4_OverallIsMeanOfFour ==
    /\ pc = "done" =>
          ret.overall_scores.overall =
              (ret.overall_scores.cost_efficiency + ret.overall_scores.operational_health
               + ret.overall_scores.security + ret.overall_scores.reliability) \div 4
    /\ (co_pc = "done" /\ "overall_score" \in DOMAIN co_ret) =>
          co_ret.overall_score.overall =
              (co_ret.overall_score.cost_efficiency + co_ret.overall_score.operational_health
               + co_ret.overall_score.security + co_ret.overall_score.reliability) \div 4

\* every high item before every medium item before every low item
PriorityOrdered(merged) ==
    \A i, j \in 1..Len(merged) :
        i < j =>
            /\ ~(merged[j].priority = "high" /\ merged[i].priority \in {"medium", "low"})
            /\ ~(merged[j].priority = "medium" /\ merged[i].priority = "low")

\* the items of one priority, in the order they have in a list
OfPriority(list, p) ==
    LET IsP(x) == x.priority = p IN SelectSeq(list, IsP)

\* items of the same priority keep the order in which they were inserted
KeepsInsertionOrder(merged, inserted) ==
    /\ Len(merged) = Len(inserted)
    /\ \A p \in {inserted[i].priority : i \in 1..Len(inserted)} :
          OfPriority(merged, p) = OfPriority(inserted, p)

\* C5: the merged recommendation list is ordered by priority (high before
\* medium before low) and the sort is stable: items of the same priority keep
\* their insertion order (both coordinators).
C5_PriorityOrderedStable ==
    /\ pc = "done" =>
          /\ PriorityOrdered(ret.coordinated_recommendations)
          /\ KeepsInsertionOrder(ret.coordinated_recommendations,
                                 CollectRecommendations(ret.results))
    /\ (co_pc = "done" /\ "coordinated_recommendations" \in DOMAIN co_ret) =>
          /\ PriorityOrdered(co_ret.coordinated_recommendations)
          /\ KeepsInsertionOrder(co_ret.coordinated_recommendations,
                                 CoordCollectRecommendations(co_ret.results))

\* C5 witness: a finished run whose merged list was reordered by the sort and
\* holds two items of the same priority from the same agent
C5_Witness ==
    /\ pc = "done"
    /\ ret.coordinated_recommendations # CollectRecommendations(ret.results)
    /\ \E i, j \in 1..Len(ret.coordinated_recommendations) :
          /\ i < j
          /\ ret.coordinated_recommendations[i].priority
                 = ret.coordinated_recommendations[j].priority
          /\ ret.coordinated_recommendations[i].source
                 = ret.coordinated_recommendations[j].source

\* a raised ClientError whose code is Throttling, RequestLimitExceeded or
\* ServiceUnavailable
RetryableError(o) ==
    /\ o.kind = "raise"
    /\ o.cls = "ClientError"
    /\ o.code \in {"Throttling", "RequestLimitExceeded", "ServiceUnavailable"}

\* C6: safe_aws_call invokes the underlying call at most max_retries times;
\* when every attempt failed with a retryable error it invoked it exactly
\* max_retries times and returns success=false, error max_retries_exceeded and
\* the error_code.
C6_RetryBounded ==
    /\ call_count <= max_retries
    /\ call_count = Len(outcomes)
    /\ (sc_pc = "done" /\ outcomes # <<>>
        /\ \A i \in 1..Len(outcomes) : RetryableError(outcomes[i])) =>
          /\ call_count = max_retries
          /\ sc_ret.success = FALSE
          /\ sc_ret.error = "max_retries_exceeded"
          /\ sc_ret.error_code = outcomes[Len(outcomes)].code

\* C6 witness: three attempts, all throttled, and the exhausted envelope
C6_Witness ==
    /\ sc_pc = "done"
    /\ max_retries = 3
    /\ call_count = 3
    /\ \A i \in 1..Len(outcomes) : RetryableError(outcomes[i])
    /\ sc_ret.error = "max_retries_exceeded"

\* C7: the delay slept before the n-th retry is 2^(n-1) seconds; a sleep
\* happens only between a retryable failure and the next attempt, and no sleep
\* follows the final attempt, a success or a non-retryable error.
C7_BackoffSchedule ==
    /\ \A n \in 1..Len(sleeps) :
          /\ sleeps[n] = Pow2(n - 1)
          /\ n <= Len(outcomes)
          /\ RetryableError(outcomes[n])
    /\ sc_pc = "loop" => (Len(sleeps) = Len(outcomes) /\ (Len(sleeps) < max_retries \/ max_retries = 0))
    /\ (sc_pc = "done" /\ outcomes # <<>>) => Len(sleeps) = Len(outcomes) - 1
    /\ (sc_pc = "done" /\ outcomes = <<>>) => sleeps = <<>>

\* C7 witness: two retries were slept for (1 s, then 2 s) and the third
\* attempt ended the call
C7_Witness ==
    /\ sc_pc = "done"
    /\ sleeps = <<1, 2>>
    /\ Len(outcomes) = 3

\* an error of a class that is never retried: a ClientError with another code
\* (access denied, invalid parameter, unclassified), missing credentials, or
\* any other exception
NonRetryError(o) == o.kind = "raise" /\ ~RetryableError(o)

\* C8: an access-denied, invalid-parameter, no-credentials or other
\* unclassified error makes safe_aws_call return a failure envelope at once:
\* the attempt that met it is the last one, so a first-attempt error of these
\* classes gives exactly one call whatever max_retries is.
C8_NonRetryClassesReturnAtOnce ==
    \A i \in 1..Len(outcomes) :
        NonRetryError(outcomes[i]) =>
            /\ i = Len(outcomes)
            /\ call_count = i
            /\ sc_pc = "done"
            /\ sleeps = [n \in 1..(i - 1) |-> Pow2(n - 1)]
            /\ sc_ret.success = FALSE
            /\ (outcomes[i].code = "AccessDenied" => sc_ret.error = "access_denied")
            /\ (outcomes[i].code \in {"InvalidParameterValue", "ValidationException"}
                    => sc_ret.error = "invalid_parameters")
            /\ (outcomes[i].cls = "NoCredentialsError" => sc_ret.error = "no_credentials")

\* C8 witness: max_retries is 3, the first attempt is denied, one call only
C8_Witness ==
    /\ sc_pc = "done"
    /\ max_retries = 3
    /\ call_count = 1
    /\ outcomes[1].code = "AccessDenied"
    /\ sc_ret.error = "access_denied"

\* C9: safe_aws_call never lets an exception escape: whatever the underlying
\* call does, it returns an envelope with a success field, success=true with
\* data or success=false with an error tag.
C9_AlwaysAnEnvelope ==
    /\ sc_pc # "raised"
    /\ sc_pc = "done" =>
          /\ "success" \in DOMAIN sc_ret
          /\ sc_ret.success = TRUE => "data" \in DOMAIN sc_ret
          /\ sc_ret.success = FALSE => "error" \in DOMAIN sc_ret

\* C9 witness: the call raised an exception of no AWS class and the adapter
\* returned a failure envelope
C9_Witness ==
    /\ sc_pc = "done"
    /\ Len(outcomes) = 1
    /\ outcomes[1].cls = "Exception"
    /\ sc_ret.success = FALSE
    /\ sc_ret.error = "unexpected_error"

\* keys of an envelope that are not domain data
EnvelopeKeys == {"agent", "success", "error", "error_code", "message", "service",
                 "timestamp", "operation"}

\* success=true implies no error key; success=false implies no data
AgentResultInvariant(r) ==
    ("success" \in DOMAIN r) =>
        /\ r.success = TRUE => "error" \notin DOMAIN r
        /\ r.success = FALSE => DOMAIN r \subseteq EnvelopeKeys

\* C10: every envelope returned by an agent's invoke entry point or by the
\* adapter has success=true only without an error field and success=false only
\* without data, also when the agent's internal operation itself failed.
C10_AgentResultInvariant ==
    /\ AgentResultInvariant(ag_ret)
    /\ AgentResultInvariant(sc_ret)

\* C11: get(k) returns the value of the most recent set(k, v, ttl) when read
\* strictly before that entry's expiry time, and returns absent and leaves no
\* entry for k when read at or after it (or after a delete); a set replaces
\* value and expiry of an earlier set of the same key.
C11_CacheTtlCorrect ==
    /\ c_last.op = "get" =>
          LET w == c_written[c_last.key] IN
          IF w.state = "set" /\ c_last.at < w.expiry
          THEN c_last.ret = w.value /\ c_last.key \in DOMAIN c_store
          ELSE c_last.ret = None /\ c_last.key \notin DOMAIN c_store
    /\ c_last.op = "set" =>
          /\ c_last.key \in DOMAIN c_store
          /\ c_store[c_last.key].value = c_written[c_last.key].value
          /\ c_store[c_last.key].expiry = c_written[c_last.key].expiry
          /\ c_store[c_last.key].expiry \in {c_last.at + t : t \in 1..MaxTtl}
                                            \cup {c_last.at + c_default_ttl}

\* C11 witness: a key is read exactly at its expiry time, one second or more
\* after it was set, and the read returns absent
C11_Witness ==
    /\ c_last.op = "get"
    /\ c_written[c_last.key].state = "set"
    /\ c_last.at = c_written[c_last.key].expiry
    /\ c_last.at > 0
    /\ c_last.ret = None
    /\ c_last.key \notin DOMAIN c_store

\* C12: a call of a function wrapped by cached, made with arguments for which
\* an earlier call stored its result and before that entry expires, returns
\* the earlier call's result without invoking the function again, whatever
\* value the function returned.
C12_MemoizedWithinTtl ==
    (c_last.op = "call" /\ c_last.before.state = "set"
     /\ c_last.at < c_last.before.expiry) =>
        /\ ~c_last.invoked
        /\ c_last.ret = c_last.before.value

\* a failure envelope: success=false
IsFailureEnvelope(r) == "success" \in DOMAIN r /\ r.success = FALSE

\* C13: when the wrapped call returns a failure envelope nothing is stored,
\* and the next call with the same arguments invokes the function again.
C13_FailuresNotCached ==
    /\ (c_last.op = "call" /\ c_last.invoked /\ IsFailureEnvelope(c_last.ret)) =>
          c_last.key \notin DOMAIN c_store
    /\ (c_last.op = "call" /\ c_last.before.state = "set"
        /\ IsFailureEnvelope(c_last.before.value)) => c_last.invoked

\* C14: under every interleaving of get, set, delete and cleanup_expired
\* calls issued by several threads on the same SimpleCache, no call raises
\* and every get returns either absent or a value that was set for that key.
C14_ThreadSafe ==
    \A t \in Threads :
        /\ th_pc[t] # "raised"
        /\ th_ret[t].op = "get" =>
              \/ th_ret[t].ret = None
              \/ th_ret[t].ret \in th_everset[th_ret[t].key]

\* the agents called in a design run, in call order
CalledAgents == [i \in 1..Len(d_calls) |-> d_calls[i].agent]

\* the first architecture result carries an estimate above the budget
InitialEstimateOverBudget ==
    /\ "estimated_monthly_cost" \in DOMAIN d_results.initial_architecture
    /\ d_req.budget_limit.given
    /\ d_results.initial_architecture.estimated_monthly_cost > d_req.budget_limit.value

\* C15: in any smart architecture design run the architecture agent is invoked
\* at most twice and the cost agent at most once; the cost call and the second
\* architecture call happen if and only if the first architecture result's
\* estimated_monthly_cost is greater than budget_limit, and then the calls are
\* architecture, cost, architecture in that order (both coordinators).
C15_OneRegeneration ==
    /\ Cardinality({i \in 1..Len(d_calls) :
                       d_calls[i].agent = "infrastructure_intelligence"}) <= 2
    /\ Cardinality({i \in 1..Len(d_calls) : d_calls[i].agent = "cost_intelligence"}) <= 1
    /\ d_pc \in {"return", "done"} =>
          IF InitialEstimateOverBudget
          THEN CalledAgents = <<"infrastructure_intelligence", "cost_intelligence",
                                "infrastructure_intelligence">>
          ELSE CalledAgents = <<"infrastructure_intelligence">>
    /\ d_pc = "done" =>
          (InitialEstimateOverBudget <=> "optimized_architecture" \in DOMAIN d_ret.results)

\* C15 witness: a finished run of the AgentCoordinator that was over budget
\* and made the three calls
C15_Witness ==
    /\ d_pc = "done"
    /\ d_impl = "coordinator"
    /\ InitialEstimateOverBudget
    /\ Len(d_calls) = 3
    /\ "cost_feedback" \in DOMAIN d_ret.results

\* small < medium < large
ScaleRank(scale) == IF scale = "small" THEN 1 ELSE IF scale = "medium" THEN 2 ELSE 3

\* C16: whenever the initial estimate exceeds budget_limit, the regenerated
\* architecture is requested at a scale tier strictly smaller than the scale
\* of the initial request, for every requested scale and every budget.
C16_RegeneratedAtSmallerScale ==
    (d_impl = "orchestrator" /\ Len(d_calls) = 3) =>
        ScaleRank(d_calls[3].scale) < ScaleRank(d_calls[1].scale)


\* The accounts whose billing query succeeded
SucceededAccounts == {i \in DOMAIN ca_billing : ca_billing[i].kind = "ok"}

\* Sum of f over a set of accounts of ca_billing
RECURSIVE SumOver(_, _)
SumOver(S, field) ==
    IF S = {} THEN 0
    ELSE LET i == CHOOSE j \in S : TRUE
         IN ca_billing[i][field] + SumOver(S \ {i}, field)

\* The result lists every account: an "accounts" list with one entry per
\* account in order, each carrying the success of that account, or, for a
\* single account, the account itself
ListsEveryAccount(r) ==
    \/ /\ Has(r, "accounts")
       /\ Len(r.accounts) = Len(ca_billing)
       /\ \A i \in DOMAIN ca_billing :
             /\ r.accounts[i].account_id = i
             /\ r.accounts[i].success = (i \in SucceededAccounts)
    \/ /\ Len(ca_billing) = 1
       /\ Has(r, "account_id") /\ r.account_id = 1

\* The aggregate the claim describes, for the billing outcomes ca_billing
AggregatesExactly(r) ==
    /\ r # CostRaised
    /\ Has(r, "accounts_checked") /\ r.accounts_checked = Len(ca_billing)
    /\ Has(r, "successful_accounts")
    /\ r.successful_accounts = Cardinality(SucceededAccounts)
    /\ Has(r, "total_usage_cost")
    /\ r.total_usage_cost = SumOver(SucceededAccounts, "usage_cost")
    /\ Has(r, "total_credit_cost")
    /\ r.total_credit_cost = SumOver(SucceededAccounts, "credit_cost")
    /\ Has(r, "total_net_cost")
    /\ r.total_net_cost = SumOver(SucceededAccounts, "usage_cost")
                          + SumOver(SucceededAccounts, "credit_cost")
    /\ ListsEveryAccount(r)

\* In organization mode the loop visits every account and the aggregate is
\* exact, whichever accounts fail
OrganizationAggregatesExactly ==
    (ca_is_org /\ ca_pc \in {"got", "done"}) =>
        /\ ca_i = Len(ca_org_accounts) + 1
        /\ AggregatesExactly(ca_ret)

\* C17: whichever accounts fail (failure result or raised exception), once
\* get_multi_account_costs has returned it has processed every account and
\* its result has accounts_checked = the number of accounts,
\* successful_accounts = the number that succeeded, the usage, credit and net
\* totals summed over the succeeded accounts only, and every account listed
C17_PartialFailureAggregation ==
    ca_pc \in {"got", "done"} =>
        /\ ca_is_org => ca_i = Len(ca_org_accounts) + 1
        /\ AggregatesExactly(ca_ret)

\* C18: an invocation with action full_analysis returns success=true
\* whenever the billing query of at least one account succeeded, in
\* organization mode and in single-account mode
C18_SuccessWhenOneAccountSucceeded ==
    (ca_pc = "done" /\ SucceededAccounts # {}) =>
        (Has(ca_inv, "success") /\ ca_inv.success = TRUE)


\* The resource types whose scan never returns or takes longer than the timeout
SlowTypes ==
    {t \in ResourceTypeSet :
        \/ rs_scan[t].kind = "never"
        \/ rs_scan[t].kind = "returns" /\ rs_scan[t].duration > ScanTimeout}

\* The returned dicts hold the resources of the types in time and nothing
\* for the slow types
SlowTypesCountZero ==
    \A t \in ResourceTypeSet :
        IF t \in SlowTypes
        THEN ~Has(rs_resource_types, t) /\ t \notin rs_resources
        ELSE (rs_scan[t].count > 0) <=>
                 (Has(rs_resource_types, t) /\ rs_resource_types[t] = rs_scan[t].count
                  /\ t \in rs_resources)

\* C19: a resource-type scan that never returns, or takes longer than the
\* 15 s timeout, does not block the batch: the scan always terminates, and
\* it returns the resources of the other types and zero resources for the
\* slow type
C19_SlowScanDoesNotBlock ==
    /\ <>(rs_pc = "returned")
    /\ [](rs_pc = "returned" => SlowTypesCountZero)


\* The rules open to 0.0.0.0/0, in the order describe_security_groups gave them
RECURSIVE OpenRules(_)
OpenRules(rules) ==
    IF rules = <<>> THEN <<>>
    ELSE (IF Head(rules).CidrIp = "0.0.0.0/0" THEN <<Head(rules)>> ELSE <<>>)
         \o OpenRules(Tail(rules))

\* C20: once the assessment has returned, every ingress rule open to
\* 0.0.0.0/0 has its finding, whose severity is high if and only if the open
\* port is in {22, 3389, 3306, 5432}, and medium otherwise
C20_SeverityBySensitivePort ==
    sg_pc = "returned" =>
        /\ Len(sg_issues) = Len(OpenRules(sg_rules))
        /\ \A i \in DOMAIN sg_issues :
              /\ sg_issues[i].security_group_id = OpenRules(sg_rules)[i].GroupId
              /\ sg_issues[i].port = OpenRules(sg_rules)[i].FromPort
              /\ sg_issues[i].severity =
                     IF sg_issues[i].port \in {22, 3389, 3306, 5432} THEN "high" ELSE "medium"


\* An envelope: a success field, and error plus message when it reports a failure
IsEnvelope(v) ==
    /\ Has(v, "success")
    /\ v.success = FALSE => (Has(v, "error") /\ Has(v, "message"))

\* C21: every value returned by invoke_agent, orchestrate_full_analysis and
\* orchestrate_smart_architecture_design is an envelope with a success field
\* that carries error and message when it reports a failure, and an unknown
\* or unconfigured agent name yields such a failure envelope without any
\* agent being invoked
C21_EveryReturnIsAnEnvelope ==
    /\ ia_calls > 0 =>
          /\ IsEnvelope(ia_last.value)
          /\ ~ia_last.backend_invoked =>
                (Has(ia_last.value, "success") /\ ia_last.value.success = FALSE)
    /\ pc = "done" => IsEnvelope(ret)
    /\ d_pc = "done" => IsEnvelope(d_ret)


\* The documented defaults of the three fields
DefaultSettings == [max_retries |-> 3, cache_ttl |-> 300, log_level |-> "INFO"]

\* The supplied configuration fails validation
ConfigurationInvalid ==
    SettingsRaises(st_env) \/ ValidationErrors(NewSettings(st_env)) # {}

\* C22: when the supplied configuration fails validation, startup either
\* aborts or the global settings object holds the documented defaults; the
\* settings object never holds a value that validate() rejects
C22_InvalidConfigurationAbortsOrDefaults ==
    st_pc = "ready" =>
        /\ ValidationErrors(st_settings) = {}
        /\ ConfigurationInvalid => st_settings = DefaultSettings


\* Position of a recommendation's source agent in the invocation order
\* cost, operations (inventory), infrastructure (architecture)
RECURSIVE IndexOf(_, _)
IndexOf(seq, x) == IF Head(seq) = x THEN 1 ELSE 1 + IndexOf(Tail(seq), x)
InvocationRank(item) == IndexOf(AgentNames, item.source)

\* The run has merged its recommendations
Merged == pc \in {"score", "return", "done"}

\* C23: among merged recommendations of equal priority, the items appear in
\* the agents' invocation order: cost items, then operations items, then
\* infrastructure items
C23_TiesInInvocationOrder ==
    Merged =>
        \A i, j \in DOMAIN coordinated :
            (i < j /\ coordinated[i].priority = coordinated[j].priority)
                => InvocationRank(coordinated[i]) <= InvocationRank(coordinated[j])

\* C24: every recommendation in coordinated_recommendations has a priority
\* in {high, medium, low}, whatever severities the agents attached
C24_PriorityIsEnum ==
    Merged =>
        \A i \in DOMAIN coordinated : coordinated[i].priority \in {"high", "medium", "low"}


\* Every invocation so far failed with a retryable error
AllRetryableSoFar == \A i \in DOMAIN outcomes : RetryableError(outcomes[i])

\* The invocations so far: retryable failures, then one that returned
FailedThenSucceeded ==
    /\ outcomes # <<>>
    /\ outcomes[Len(outcomes)].kind = "return"
    /\ \A i \in 1..(Len(outcomes) - 1) : RetryableError(outcomes[i])

\* C25: when the call fails with a retryable error on its first k attempts,
\* k < max_retries, safe_aws_call does not give up but calls again, and when
\* the next invocation succeeds it returns success=true with that
\* invocation's result as data, after exactly k+1 invocations
C25_RecoversFromTransientFailure ==
    /\ (AllRetryableSoFar /\ Len(outcomes) < max_retries) =>
          (sc_pc = "loop" /\ call_count = Len(outcomes) /\ attempt = Len(outcomes))
    /\ (FailedThenSucceeded /\ Len(outcomes) - 1 < max_retries) =>
          /\ sc_pc = "done"
          /\ sc_ret = [success |-> TRUE, data |-> RawResult(Len(outcomes))]
          /\ call_count = Len(outcomes)

C25_Witness ==
    /\ FailedThenSucceeded
    /\ Len(outcomes) >= 3
    /\ sc_pc = "done" /\ sc_ret.success = TRUE


\* The error field of the envelopes that classify what the call did
ClassifiedErrors ==
    {"max_retries_exceeded", "access_denied", "invalid_parameters", "aws_client_error",
     "no_credentials", "botocore_error", "unexpected_error"}

\* The envelope of the statement after the loop
IsFallThroughEnvelope(r) == Has(r, "error") /\ r.error = "unknown_error"

ScannedAccounts == {i \in DOMAIN os_accounts : os_accounts[i].kind = "scanned"}

\* C26: a failing account never prevents later accounts from being scanned,
\* and the reported coverage is exact: scanned_accounts is the number of
\* member accounts whose scan did not fail, accounts that hold no resources
\* included, and scanned_accounts <= total_accounts
C26_ExactScanCoverage ==
    os_pc = "returned" =>
        /\ os_i = Len(os_accounts) + 1
        /\ \A i \in ScannedAccounts :
              ScanAccountResources(i, os_accounts[i]) \subseteq os_ret.resources
        /\ os_ret.organization_context.total_accounts = Len(os_accounts)
        /\ os_ret.organization_context.scanned_accounts = Cardinality(ScannedAccounts)
        /\ os_ret.organization_context.scanned_accounts
               <= os_ret.organization_context.total_accounts


\* The last completed call is set(k, v, ttl=0)
LastSetWithZeroTtl ==
    c_last.op = "set" /\ c_last.ttl = [given |-> TRUE, value |-> 0]

\* C28: set(k, v, ttl=0) does not store an immediately expired entry: the
\* entry receives the cache's default_ttl, as with an omitted ttl, and a get
\* made right after returns v whenever default_ttl > 0
C28_ZeroTtlMeansDefault ==
    LastSetWithZeroTtl =>
        /\ c_last.key \in DOMAIN c_store
        /\ c_store[c_last.key].expiry = c_last.at + c_default_ttl
        /\ c_store[c_last.key].expiry
               = c_last.at + EffectiveTtl([given |-> FALSE, value |-> 0], c_default_ttl)
        /\ c_default_ttl > 0 =>
               GetResult(c_store, c_last.key, c_last.at) = c_written[c_last.key].value

C28_Witness ==
    /\ LastSetWithZeroTtl
    /\ c_default_ttl > 0
    /\ c_store[c_last.key].expiry > c_last.at


\* The first architecture result is a failure envelope of invoke_agent
InitialArchitectureFailed ==
    /\ Has(d_results, "initial_architecture")
    /\ Has(d_results.initial_architecture, "success")
    /\ d_results.initial_architecture.success = FALSE

\* C29: orchestrate_smart_architecture_design of the local orchestrator
\* returns success = true whenever its own logic raises no exception (no step
\* of it does), including when the architecture agent's result is a failure
\* envelope; in that case the estimate is taken as 0, so no cost-agent call
\* and no regeneration occur.
C29_FailedArchitectureStillSucceeds ==
    d_impl = "orchestrator" =>
        /\ d_pc = "done" => (Has(d_ret, "success") /\ d_ret.success = TRUE)
        /\ (d_pc \in {"return", "done"} /\ InitialArchitectureFailed) =>
              /\ ~Has(d_results.initial_architecture, "estimated_monthly_cost")
              /\ Len(d_calls) = 1
              /\ d_calls[1].agent = "infrastructure_intelligence"
              /\ ~Has(d_results, "cost_feedback")
              /\ ~Has(d_results, "optimized_architecture")
        /\ (d_pc = "done" /\ InitialArchitectureFailed) =>
              d_ret.results = [initial_architecture |-> d_results.initial_architecture]

\* C29 witness: a finished run with a budget whose architecture agent failed
C29_Witness ==
    /\ d_impl = "orchestrator"
    /\ d_pc = "done"
    /\ d_req.budget_limit.given
    /\ InitialArchitectureFailed
    /\ d_ret.success = TRUE
    /\ Len(d_calls) = 1


\* 0 <= current_question_index <= len(questions)
IndexInRange == 0 <= iv_index /\ iv_index <= Len(iv_questions)

\* C30: after any sequence of start_interview, process_analysis and
\* process_response calls on a session, 0 <= current_question_index <=
\* len(questions) holds, and process_response raises no exception whenever
\* the session is in state questioning
C30_InterviewIndexInRange ==
    iv_state # "absent" =>
        /\ IndexInRange
        /\ iv_state = "questioning" => ~Has(iv_ret, "raised")

====
